---- MODULE Spec2Model ----
(***************************************************************************)
(* Request pipeline of the VikingDB Go SDK: client construction (New /     *)
(* newTransport), the retry policy (utils.Retry), the retryability         *)
(* predicate (model.IsRetryableError), the response decoder                *)
(* (utils.ParseResponse) and transport.doRequest, which composes them.     *)
(*                                                                         *)
(* Durations are in milliseconds (the source uses time.Duration; every     *)
(* duration the code computes from 100ms by doubling and capping at 10s is *)
(* a whole number of milliseconds).                                        *)
(***************************************************************************)
EXTENDS Integers, Sequences, FiniteSets, TLC

VARIABLES
    client,   \* result of vector.New: its inputs, the transport built, the error
    call,     \* the transport.doRequest invocation in progress, if any
    retry     \* the utils.Retry invocation in progress, if any

vars == <<client, call, retry>>

Min(a, b) == IF a < b THEN a ELSE b

-----------------------------------------------------------------------------
(* Bounds of the model                                                      *)

\* largest maxRetries passed to utils.Retry directly
MaxDirectRetries == 8
\* largest retry count configured on a client or overridden per call
MaxCfgRetries == 2

-----------------------------------------------------------------------------
(* model: SDK error type                                                    *)

ErrCodeHTTPRequestFailed == "HTTPRequestFailed"
ErrCodeUnknown == "Unknown"
ErrCodeInvalidParameter == "InvalidParameter"
ErrCodeServiceUnavailable == "ServiceUnavailable"
ErrCodeTimeout == "Timeout"
ErrCodeRequestLimitExceeded == "RequestLimitExceeded"
ErrCodeUnauthorized == "Unauthorized"
ErrCodeNotFound == "NotFound"

StatusOK == 200
StatusMultipleChoices == 300
StatusBadRequest == 400
StatusTooManyRequests == 429
StatusInternalServerError == 500
StatusBadGateway == 502
StatusServiceUnavailable == 503
StatusGatewayTimeout == 504

\* The Go value nil of type error.
NilErr ==
    [type |-> "nil", Code |-> "", Message |-> "", StatusCode |-> 0,
     RequestID |-> "", Err |-> "nil"]

\* An error that is not *model.Error (errors.New, *url.Error, io errors, ...).
\* Err is the name of the wrapped cause, "nil" when there is none.
RawErr(name) ==
    [type |-> "raw", Code |-> "", Message |-> name, StatusCode |-> 0,
     RequestID |-> "", Err |-> "nil"]

NewErrorWithStatusCode(code, message, statusCode) ==
    [type |-> "sdk", Code |-> code, Message |-> message,
     StatusCode |-> statusCode, RequestID |-> "", Err |-> "nil"]

\* A plausible slip: the request id is not stored.
NewErrorWithRequestID_dropped(code, message, requestID, statusCode) ==
    NewErrorWithStatusCode(code, message, statusCode)

NewErrorWithRequestID(code, message, requestID, statusCode) ==
    [type |-> "sdk", Code |-> code, Message |-> message,
     StatusCode |-> statusCode, RequestID |-> requestID, Err |-> "nil"]

\* cause is a raw error or NilErr; the wrapped cause is kept by name.
NewErrorWithCause(code, message, cause, statusCode) ==
    [type |-> "sdk", Code |-> code, Message |-> message,
     StatusCode |-> statusCode, RequestID |-> "",
     Err |-> IF cause.type = "nil" THEN "nil" ELSE cause.Message]

NewInvalidParameterError(message) ==
    NewErrorWithStatusCode(ErrCodeInvalidParameter, message, StatusBadRequest)

\* A plausible slip: 502 missing from the retryable statuses.
IsRetryableError_no502(err) ==
    IF err.type = "nil" THEN FALSE
    ELSE IF err.type # "sdk" THEN FALSE
    ELSE IF err.StatusCode \in {StatusTooManyRequests, StatusInternalServerError,
                                StatusServiceUnavailable, StatusGatewayTimeout}
         THEN TRUE
    ELSE IF err.Code \in {ErrCodeServiceUnavailable, ErrCodeTimeout,
                          ErrCodeRequestLimitExceeded}
         THEN TRUE
    ELSE FALSE

IsRetryableError(err) ==
    IF err.type = "nil" THEN FALSE
    ELSE IF err.type # "sdk" THEN FALSE
    ELSE IF err.StatusCode \in {StatusTooManyRequests, StatusInternalServerError,
                                StatusBadGateway, StatusServiceUnavailable,
                                StatusGatewayTimeout}
         THEN TRUE
    ELSE IF err.Code \in {ErrCodeServiceUnavailable, ErrCodeTimeout,
                          ErrCodeRequestLimitExceeded}
         THEN TRUE
    ELSE FALSE

-----------------------------------------------------------------------------
(* utils: Retry                                                             *)

defaultInitialBackoff == 100
defaultMaxBackoff == 10000
backoffMultiplier == 2

\* The shouldRetry argument of Retry: the nil func, utils.IsRetryableError
\* (what doRequest passes), or a caller's predicate that always answers the
\* same.
ShouldRetryKinds == {"nil", "IsRetryableError", "never", "always"}

\* shouldRetry(err) for a non-nil shouldRetry.
ApplyShouldRetry(kind, err) ==
    CASE kind = "IsRetryableError" -> IsRetryableError(err)
      [] kind = "never" -> FALSE
      [] kind = "always" -> TRUE
      [] OTHER -> TRUE

\* A plausible slip: negative counts are not clamped.
ClampRetries_noclamp(maxRetries) == maxRetries

\* Retry, lines 70-72.
ClampRetries(maxRetries) == IF maxRetries < 0 THEN 0 ELSE maxRetries

\* Values rand.Int63n(int64(delay)) is drawn from: the two ends of [0, delay).
JitterChoices(delay) == {0, delay - 1}

\* A plausible slip: the sleep is not capped at the ceiling.
SleepFor_nocap(delay, jitter) == delay + jitter

\* Retry, lines 78-82.
SleepFor(delay, jitter) ==
    IF delay + jitter > defaultMaxBackoff THEN defaultMaxBackoff
    ELSE delay + jitter

\* A plausible slip: the delay grows by the initial backoff, not by the
\* multiplier.
NextDelay_linear(delay) ==
    IF delay + defaultInitialBackoff > defaultMaxBackoff THEN defaultMaxBackoff
    ELSE delay + defaultInitialBackoff

\* Retry, lines 84-88.
NextDelay(delay) ==
    IF delay * backoffMultiplier > defaultMaxBackoff THEN defaultMaxBackoff
    ELSE delay * backoffMultiplier

\* A plausible slip: the shouldRetry verdict is ignored.
AfterAttempt_ignoreVerdict(attempt, maxRetries, shouldRetry, err) ==
    IF err.type # "nil"
    THEN IF attempt = maxRetries THEN "return_err" ELSE "continue"
    ELSE "return_nil"

\* A plausible slip: any failed attempt ends the loop.
AfterAttempt_neverRetry(attempt, maxRetries, shouldRetry, err) ==
    IF err.type # "nil" THEN "return_err" ELSE "return_nil"

\* A plausible slip: the loop stops one attempt early.
AfterAttempt_offByOne(attempt, maxRetries, shouldRetry, err) ==
    IF err.type # "nil"
    THEN IF shouldRetry # "nil" /\ ~ApplyShouldRetry(shouldRetry, err)
         THEN "return_err"
         ELSE IF attempt + 1 >= maxRetries THEN "return_err"
         ELSE "continue"
    ELSE "return_nil"

\* A plausible slip: the return after a successful fn() is missing.
AfterAttempt_noReturnOnSuccess(attempt, maxRetries, shouldRetry, err) ==
    IF err.type # "nil"
    THEN IF shouldRetry # "nil" /\ ~ApplyShouldRetry(shouldRetry, err)
         THEN "return_err"
         ELSE IF attempt = maxRetries THEN "return_err"
         ELSE "continue"
    ELSE "continue"

\* Retry, lines 91-101: what the loop does with the result err of fn().
AfterAttempt(attempt, maxRetries, shouldRetry, err) ==
    IF err.type # "nil"
    THEN IF shouldRetry # "nil" /\ ~ApplyShouldRetry(shouldRetry, err)
         THEN "return_err"
         ELSE IF attempt = maxRetries THEN "return_err"
         ELSE "continue"
    ELSE "return_nil"

\* State of Retry on entry (lines 70-76): no attempt made yet. calls counts
\* the invocations of fn, sleeps the calls of time.Sleep, sleepFor is the
\* local of that name (0 outside the iteration that slept), err is what the
\* latest fn() returned.
RetryEntry(maxRetries, shouldRetry, fn) ==
    [pc |-> IF 0 <= ClampRetries(maxRetries) THEN "attempt" ELSE "done",
     fn |-> fn, arg |-> maxRetries,
     maxRetries |-> ClampRetries(maxRetries), shouldRetry |-> shouldRetry,
     attempt |-> 0, delay |-> defaultInitialBackoff,
     calls |-> 0, sleeps |-> 0, sleepFor |-> 0,
     err |-> NilErr, lastErr |-> NilErr, ret |-> NilErr]

RetryIdle ==
    [pc |-> "idle", fn |-> "none", arg |-> 0, maxRetries |-> 0,
     shouldRetry |-> "nil", attempt |-> 0, delay |-> defaultInitialBackoff,
     calls |-> 0, sleeps |-> 0, sleepFor |-> 0,
     err |-> NilErr, lastErr |-> NilErr, ret |-> NilErr]

\* Retry's state after fn() returned err in state r (lines 91-104).
RetryStep(r, err) ==
    LET d == AfterAttempt(r.attempt, r.maxRetries, r.shouldRetry, err)
        lastErr == IF err.type # "nil" THEN err ELSE r.lastErr
        more == d = "continue" /\ r.attempt + 1 <= r.maxRetries
    IN
    [r EXCEPT !.calls = @ + 1,
              !.sleepFor = 0,
              !.err = err,
              !.lastErr = lastErr,
              !.pc = IF more THEN "sleep" ELSE "done",
              !.attempt = IF d = "continue" THEN @ + 1 ELSE @,
              !.ret = CASE d = "return_err" -> err
                        [] d = "return_nil" -> NilErr
                        [] OTHER -> IF more THEN NilErr ELSE lastErr]

\* Retry's state when fn() panics (line 91): fn was invoked and does not
\* return; Retry has no recover, so the panic unwinds through it and through
\* its caller.
RetryPanicked(r) == [r EXCEPT !.calls = @ + 1, !.sleepFor = 0, !.pc = "panicked"]

\* Retry's state after the backoff sleep of an iteration (lines 77-89).
RetrySlept(r, jitter) ==
    [r EXCEPT !.pc = "attempt",
              !.sleeps = @ + 1,
              !.sleepFor = SleepFor(r.delay, jitter),
              !.delay = NextDelay(r.delay)]

-----------------------------------------------------------------------------
(* vector: configuration, credentials, client construction                  *)

DefaultEndpoint == "https://api.vector.bytedance.com"
DefaultRegion == "cn-beijing"
\* seconds
DefaultTimeout == 30
DefaultMaxRetries == 3

DefaultConfig ==
    [Endpoint |-> DefaultEndpoint, Region |-> DefaultRegion,
     Timeout |-> DefaultTimeout, MaxRetries |-> DefaultMaxRetries,
     HTTPClient |-> "nil", UserAgent |-> ""]

\* ClientOption values: the option's name with its string or integer argument.
WithEndpoint(endpoint) == [opt |-> "WithEndpoint", s |-> endpoint, n |-> 0]
WithRegion(region) == [opt |-> "WithRegion", s |-> region, n |-> 0]
WithTimeout(timeout) == [opt |-> "WithTimeout", s |-> "", n |-> timeout]
WithMaxRetries(maxRetries) == [opt |-> "WithMaxRetries", s |-> "", n |-> maxRetries]
WithHTTPClient(httpClient) == [opt |-> "WithHTTPClient", s |-> httpClient, n |-> 0]
WithUserAgent(userAgent) == [opt |-> "WithUserAgent", s |-> userAgent, n |-> 0]

\* opt(&cfg)
ApplyClientOption(cfg, o) ==
    CASE o.opt = "WithEndpoint" -> [cfg EXCEPT !.Endpoint = o.s]
      [] o.opt = "WithRegion" -> [cfg EXCEPT !.Region = o.s]
      [] o.opt = "WithTimeout" -> [cfg EXCEPT !.Timeout = o.n]
      [] o.opt = "WithMaxRetries" -> [cfg EXCEPT !.MaxRetries = o.n]
      [] o.opt = "WithHTTPClient" -> [cfg EXCEPT !.HTTPClient = o.s]
      [] o.opt = "WithUserAgent" -> [cfg EXCEPT !.UserAgent = o.s]

RECURSIVE ApplyClientOptions(_, _)
\* New, lines 250-253: the options applied in order to the default config.
ApplyClientOptions(cfg, opts) ==
    IF opts = << >> THEN cfg
    ELSE ApplyClientOptions(ApplyClientOption(cfg, Head(opts)), Tail(opts))

AuthNone == [kind |-> "authKindNone", accessKey |-> "", secretKey |-> "", apiKey |-> ""]
AuthIAM(accessKey, secretKey) ==
    [kind |-> "authKindIAM", accessKey |-> accessKey, secretKey |-> secretKey,
     apiKey |-> ""]
AuthAPIKey(apiKey) ==
    [kind |-> "authKindAPIKey", accessKey |-> "", secretKey |-> "", apiKey |-> apiKey]

\* The authenticator variants.
noAuth == [kind |-> "noAuth", ak |-> "", sk |-> "", region |-> "", token |-> ""]
iamAuth(ak, sk, region) ==
    [kind |-> "iamAuth", ak |-> ak, sk |-> sk, region |-> region, token |-> ""]
apiKeyAuth(token) ==
    [kind |-> "apiKeyAuth", ak |-> "", sk |-> "", region |-> "", token |-> token]

\* url.Parse on the endpoints of the model: whether it fails, and the scheme
\* it finds ("" for an endpoint without one).
UrlParse(endpoint) ==
    CASE endpoint = "://bad" -> [err |-> TRUE, Scheme |-> "", Rest |-> ""]
      [] endpoint = "https://host" -> [err |-> FALSE, Scheme |-> "https", Rest |-> "//host"]
      [] endpoint = "http://host" -> [err |-> FALSE, Scheme |-> "http", Rest |-> "//host"]
      [] endpoint = DefaultEndpoint ->
            [err |-> FALSE, Scheme |-> "https", Rest |-> "//api.vector.bytedance.com"]
      [] OTHER -> [err |-> FALSE, Scheme |-> "", Rest |-> endpoint]

\* (*transport)(nil)
NoTransport ==
    [config |-> [Endpoint |-> "", Region |-> "", Timeout |-> 0, MaxRetries |-> 0,
                 HTTPClient |-> "nil", UserAgent |-> ""],
     httpClient |-> "nil", baseURL |-> "", auth |-> noAuth, userAgent |-> ""]

Version == "0.1.0"

\* A plausible slip: the credential checks are left to the first call.
SelectAuth_unchecked(authConfig, region) ==
    CASE authConfig.kind = "authKindIAM" ->
            [err |-> NilErr,
             auth |-> iamAuth(authConfig.accessKey, authConfig.secretKey, region)]
      [] authConfig.kind = "authKindAPIKey" ->
            [err |-> NilErr, auth |-> apiKeyAuth(authConfig.apiKey)]
      [] OTHER ->
            [err |-> NewInvalidParameterError("no auth"), auth |-> noAuth]

\* newTransport, lines 214-228: the authenticator for the credential given,
\* or the error that ends construction.
SelectAuth(authConfig, region) ==
    CASE authConfig.kind = "authKindIAM" ->
            IF authConfig.accessKey = "" \/ authConfig.secretKey = ""
            THEN [err |-> NewInvalidParameterError(
                              "access key and secret key cannot be empty"),
                  auth |-> noAuth]
            ELSE [err |-> NilErr,
                  auth |-> iamAuth(authConfig.accessKey, authConfig.secretKey, region)]
      [] authConfig.kind = "authKindAPIKey" ->
            IF authConfig.apiKey = ""
            THEN [err |-> NewInvalidParameterError("api key cannot be empty"),
                  auth |-> noAuth]
            ELSE [err |-> NilErr, auth |-> apiKeyAuth(authConfig.apiKey)]
      [] OTHER ->
            [err |-> NewInvalidParameterError("no auth"), auth |-> noAuth]

\* A plausible slip: the empty endpoint is not rejected.
EndpointCheck_missing(cfg) == NilErr

\* newTransport, lines 182-191.
EndpointCheck(cfg) ==
    IF cfg.Endpoint = ""
    THEN NewInvalidParameterError("endpoint cannot be empty")
    ELSE IF UrlParse(cfg.Endpoint).err
    THEN NewErrorWithCause(ErrCodeInvalidParameter, "invalid endpoint",
                           RawErr("url.Parse"), StatusBadRequest)
    ELSE NilErr

\* newTransport, lines 230-232.
ConfigRetries(maxRetries) == IF maxRetries < 0 THEN 0 ELSE maxRetries

\* newTransport: the pair (transport, error) it returns.
newTransport(cfg, authConfig) ==
    LET e == EndpointCheck(cfg) IN
    IF e.type # "nil" THEN [transport |-> NoTransport, err |-> e]
    ELSE
    LET u == UrlParse(cfg.Endpoint)
        scheme == IF u.Scheme = "" THEN "https" ELSE u.Scheme
        region == IF cfg.Region = "" THEN DefaultConfig.Region ELSE cfg.Region
        timeout == IF cfg.Timeout <= 0 THEN DefaultConfig.Timeout ELSE cfg.Timeout
        httpClient == IF cfg.HTTPClient = "nil" THEN "default" ELSE cfg.HTTPClient
        userAgent == IF cfg.UserAgent = "" THEN "vikingdb-go-sdk/" \o Version
                     ELSE cfg.UserAgent
        a == SelectAuth(authConfig, region)
    IN  IF a.err.type # "nil" THEN [transport |-> NoTransport, err |-> a.err]
        ELSE [transport |->
                 [config |-> [cfg EXCEPT !.Region = region, !.Timeout = timeout,
                                         !.MaxRetries = ConfigRetries(cfg.MaxRetries)],
                  httpClient |-> httpClient,
                  baseURL |-> scheme \o ":" \o u.Rest,
                  auth |-> a.auth,
                  userAgent |-> userAgent],
              err |-> NilErr]

\* vector.New: the pair (client, error); the client is its transport.
New(auth, opts) == newTransport(ApplyClientOptions(DefaultConfig, opts), auth)

-----------------------------------------------------------------------------
(* utils: response decoding                                                 *)

\* JSON numbers. The text of a number is a sequence of characters.
DigitChars == <<"0", "1", "2", "3", "4", "5", "6", "7", "8", "9">>

IsDigit(c) == \E d \in 1 .. 10 : DigitChars[d] = c

DigitValue(c) == (CHOOSE d \in 1 .. 10 : DigitChars[d] = c) - 1

RECURSIVE DigitsValue(_)
\* The number a sequence of digits writes.
DigitsValue(digits) ==
    IF digits = << >> THEN 0
    ELSE 10 * DigitsValue(SubSeq(digits, 1, Len(digits) - 1))
         + DigitValue(digits[Len(digits)])

AllDigits(s) == s # << >> /\ \A i \in 1 .. Len(s) : IsDigit(s[i])

\* strconv.ParseInt(text, 10, 64): a sign and digits, nothing else.
ParseInt(text) ==
    LET neg == text # << >> /\ Head(text) = "-"
        digits == IF neg THEN Tail(text) ELSE text
    IN  IF AllDigits(digits)
        THEN [err |-> FALSE, val |-> (IF neg THEN -1 ELSE 1) * DigitsValue(digits)]
        ELSE [err |-> TRUE, val |-> 0]

RECURSIVE Normalise(_, _)
\* mant * 10^exp with no trailing zero left in the fraction.
Normalise(mant, exp) ==
    IF exp < 0 /\ mant % 10 = 0 THEN Normalise(mant \div 10, exp + 1)
    ELSE [mant |-> mant, exp |-> exp]

\* A float64 of the model: the decimal mant * 10^exp, normalised.
Float(mant, exp) ==
    LET m == IF mant < 0 THEN 0 - mant ELSE mant
        n == Normalise(m, exp)
    IN  [mant |-> IF mant < 0 THEN 0 - n.mant ELSE n.mant, exp |-> n.exp]

\* strconv.ParseFloat(text, 64) for a text with an optional sign, digits and
\* an optional fraction.
ParseFloat(text) ==
    LET neg == text # << >> /\ Head(text) = "-"
        body == IF neg THEN Tail(text) ELSE text
        dots == {i \in 1 .. Len(body) : body[i] = "."}
        dot == IF dots = {} THEN Len(body) + 1 ELSE CHOOSE i \in dots : TRUE
        int == SubSeq(body, 1, dot - 1)
        frac == SubSeq(body, dot + 1, Len(body))
    IN  IF AllDigits(int) /\ (dots = {} \/ AllDigits(frac))
        THEN [err |-> FALSE,
              val |-> Float((IF neg THEN -1 ELSE 1) * DigitsValue(int \o frac),
                            0 - Len(frac))]
        ELSE [err |-> TRUE, val |-> Float(0, 0)]

\* interface{} values a JSON number can decode to.
NoValue == [type |-> "nil", text |-> << >>, val |-> Float(0, 0)]
JSONNumber(text) == [type |-> "json.Number", text |-> text, val |-> Float(0, 0)]
Float64Value(f) == [type |-> "float64", text |-> << >>, val |-> f]


\* Response bodies, by what their bytes are: no bytes, bytes that are not
\* JSON, a JSON value of the wrong type (an array), or a JSON object with the
\* string fields code, message and request_id; score is the text of the
\* number the object has as its field "score", << >> when it has none.
BodyEmpty ==
    [kind |-> "empty", code |-> "", message |-> "", request_id |-> "",
     score |-> << >>]
BodyNotJSON ==
    [kind |-> "notjson", code |-> "", message |-> "", request_id |-> "",
     score |-> << >>]
BodyBadType ==
    [kind |-> "badtype", code |-> "", message |-> "", request_id |-> "",
     score |-> << >>]
BodyObject(code, message, requestID) ==
    [kind |-> "object", code |-> code, message |-> message,
     request_id |-> requestID, score |-> << >>]
BodyWithScore(requestID, text) ==
    [kind |-> "object", code |-> "", message |-> "", request_id |-> requestID,
     score |-> text]

RECURSIVE CharsText(_)
\* string(chars)
CharsText(chars) ==
    IF chars = << >> THEN "" ELSE Head(chars) \o CharsText(Tail(chars))

\* string(body)
BodyText(body) ==
    CASE body.kind = "empty" -> ""
      [] body.kind = "notjson" -> "<html>"
      [] body.kind = "badtype" -> "[1]"
      [] OTHER -> "{\"code\":\"" \o body.code \o "\",\"message\":\"" \o body.message
                  \o "\",\"request_id\":\"" \o body.request_id \o "\""
                  \o (IF body.score = << >> THEN ""
                      ELSE ",\"score\":" \o CharsText(body.score))
                  \o "}"

\* The response target: a nil interface, or a pointer to a typed response
\* whose embedded CommonResponse fields are these; Score is the untyped
\* (interface{}) field the "score" of the body decodes into, such as
\* Fields["score"] of a fetched item.
NilTarget ==
    [nil |-> TRUE, Code |-> "", Message |-> "", RequestID |-> "", Score |-> NoValue]
ZeroTarget ==
    [nil |-> FALSE, Code |-> "", Message |-> "", RequestID |-> "", Score |-> NoValue]

\* json.NewDecoder(bytes.NewReader(input)), line 39: a decoder that has not
\* been told to keep numbers.
NewDecoder(input) == [input |-> input, useNumber |-> FALSE]

\* decoder.UseNumber(), line 40.
UseNumber(decoder) == [decoder EXCEPT !.useNumber = TRUE]

\* What the decoder stores in an untyped field for the number literal text:
\* a json.Number that is the literal when it was told to keep numbers, else
\* the float64 strconv.ParseFloat makes of the literal.
ConvertNumberLiteral(decoder, text) ==
    IF decoder.useNumber THEN JSONNumber(text)
    ELSE Float64Value(ParseFloat(text).val)

\* decoder.Decode(target), line 41: the error, and the fields decoded; score
\* is NoValue when the body has no such field.
DecoderDecode(decoder) ==
    LET input == decoder.input IN
    CASE input.kind = "empty" ->
            [err |-> RawErr("EOF"), code |-> "", message |-> "",
             request_id |-> "", score |-> NoValue]
      [] input.kind = "notjson" ->
            [err |-> RawErr("json: invalid character"),
             code |-> "", message |-> "", request_id |-> "", score |-> NoValue]
      [] input.kind = "badtype" ->
            [err |-> RawErr("json: cannot unmarshal array"),
             code |-> "", message |-> "", request_id |-> "", score |-> NoValue]
      [] OTHER ->
            [err |-> NilErr, code |-> input.code, message |-> input.message,
             request_id |-> input.request_id,
             score |-> IF input.score = << >> THEN NoValue
                       ELSE ConvertNumberLiteral(decoder, input.score)]

\* A plausible slip: the decoder is used without UseNumber, so a number in
\* an untyped field becomes a float64.
ParseJSONUseNumber_float64(input, targetIsNil) ==
    IF targetIsNil
    THEN [err |-> RawErr("ParseJSONUseNumber: target must not be nil"),
          code |-> "", message |-> "", request_id |-> "", score |-> NoValue]
    ELSE DecoderDecode(NewDecoder(input))

\* ParseJSONUseNumber(input, target): the error, and the fields decoded.
ParseJSONUseNumber(input, targetIsNil) ==
    IF targetIsNil
    THEN [err |-> RawErr("ParseJSONUseNumber: target must not be nil"),
          code |-> "", message |-> "", request_id |-> "", score |-> NoValue]
    ELSE DecoderDecode(UseNumber(NewDecoder(input)))

\* The untyped field of the target after a decode: what the body's field
\* decoded to, or what the target held when the body has no such field.
DecodedScore(result, dec) ==
    IF dec.score = NoValue THEN result.Score ELSE dec.score

\* A plausible slip: the request_id of the body does not reach RequestID
\* (a wrong json tag).
DecodeInto_wrongTag(result, dec) ==
    [nil |-> FALSE, Code |-> dec.code, Message |-> dec.message,
     RequestID |-> result.RequestID, Score |-> DecodedScore(result, dec)]

\* decoder.Decode(target) for a body that decodes: the target afterwards.
\* Every field the body carries replaces the field of the target.
DecodeInto(result, dec) ==
    [nil |-> FALSE, Code |-> dec.code, Message |-> dec.message,
     RequestID |-> dec.request_id, Score |-> DecodedScore(result, dec)]

\* A plausible slip: 300 counted as a success status.
IsErrorStatus_300ok(statusCode) ==
    statusCode < StatusOK \/ statusCode > StatusMultipleChoices

\* ParseResponse, line 30: the status is outside [200, 300).
IsErrorStatus(statusCode) ==
    statusCode < StatusOK \/ statusCode >= StatusMultipleChoices

\* A plausible slip: only the code of the envelope is looked at.
EnvelopeUsable_codeOnly(errResp) ==
    errResp.err.type = "nil" /\ errResp.code # ""

\* ParseResponse, line 36: the body parsed as the error envelope and says
\* something: its code or its message is non-empty.
EnvelopeUsable(errResp) ==
    errResp.err.type = "nil" /\ (errResp.code # "" \/ errResp.message # "")

\* A plausible slip: the body is left out of the fallback message.
FallbackMessage_noBody(statusCode, body) ==
    "unexpected " \o ToString(statusCode) \o " response"

\* ParseResponse, line 39: fmt.Sprintf("unexpected %d response: %s", ...).
FallbackMessage(statusCode, body) ==
    "unexpected " \o ToString(statusCode) \o " response: " \o BodyText(body)

\* The error io.ReadAll returns when reading the body fails: the error of
\* the request's context when that ended the read, else a broken stream.
ReadErrCause(resp) == IF resp.cause # "" THEN resp.cause ELSE "unexpected EOF"

\* A plausible slip: the fallback error wraps the error of parsing the body.
FallbackCause_parseErr(parseErr) == parseErr

\* ParseResponse, line 39: the cause handed to the fallback error is err, the
\* result of io.ReadAll, which is nil there; parseErr is out of scope.
FallbackCause(parseErr) == NilErr

\* A plausible slip: a body that cannot be decoded is reported as a server
\* error.
DecodeFailureStatus_500(statusCode) == StatusInternalServerError

\* ParseResponse, line 47: the status of the error for a 2xx body that does
\* not decode into the target.
DecodeFailureStatus(statusCode) == statusCode

\* A plausible slip: a non-2xx status is not turned into an error.
ParseResponse_statusIgnored(resp, result) ==
    IF resp.readErr
    THEN [err |-> NewErrorWithCause(ErrCodeUnknown, "failed to read response body",
                                    RawErr(ReadErrCause(resp)), StatusInternalServerError),
          result |-> result]
    ELSE [err |-> NilErr, result |-> result]

\* A plausible slip: the body is decoded into the target before the status
\* is looked at.
ParseResponse_decodeFirst(resp, result) ==
    LET dec == ParseJSONUseNumber(resp.body, FALSE)
        written == IF resp.readErr \/ result.nil \/ dec.err.type # "nil"
                   THEN result ELSE DecodeInto(result, dec)
    IN
    IF resp.readErr
    THEN [err |-> NewErrorWithCause(ErrCodeUnknown, "failed to read response body",
                                    RawErr(ReadErrCause(resp)), StatusInternalServerError),
          result |-> result]
    ELSE IF IsErrorStatus(resp.StatusCode)
    THEN IF EnvelopeUsable(dec)
         THEN [err |-> NewErrorWithRequestID(dec.code, dec.message,
                                             dec.request_id, resp.StatusCode),
               result |-> written]
         ELSE [err |-> NewErrorWithCause(
                           ErrCodeUnknown,
                           FallbackMessage(resp.StatusCode, resp.body),
                           NilErr, resp.StatusCode),
               result |-> written]
    ELSE IF result.nil \/ resp.body.kind = "empty"
    THEN [err |-> NilErr, result |-> result]
    ELSE IF dec.err.type # "nil"
         THEN [err |-> NewErrorWithCause(ErrCodeUnknown,
                                         "failed to unmarshal response body",
                                         dec.err,
                                         DecodeFailureStatus(resp.StatusCode)),
               result |-> result]
         ELSE [err |-> NilErr, result |-> written]

\* ParseResponse(resp, result): the error returned and the target afterwards.
\* resp.readErr says whether reading the body fails.
ParseResponse(resp, result) ==
    IF resp.readErr
    THEN [err |-> NewErrorWithCause(ErrCodeUnknown, "failed to read response body",
                                    RawErr(ReadErrCause(resp)), StatusInternalServerError),
          result |-> result]
    ELSE IF IsErrorStatus(resp.StatusCode)
    THEN LET errResp == ParseJSONUseNumber(resp.body, FALSE) IN
         IF EnvelopeUsable(errResp)
         THEN [err |-> NewErrorWithRequestID(errResp.code, errResp.message,
                                             errResp.request_id, resp.StatusCode),
               result |-> result]
         ELSE [err |-> NewErrorWithCause(
                           ErrCodeUnknown,
                           FallbackMessage(resp.StatusCode, resp.body),
                           FallbackCause(errResp.err), resp.StatusCode),
               result |-> result]
    ELSE IF result.nil \/ resp.body.kind = "empty"
    THEN [err |-> NilErr, result |-> result]
    ELSE LET dec == ParseJSONUseNumber(resp.body, FALSE) IN
         IF dec.err.type # "nil"
         THEN [err |-> NewErrorWithCause(ErrCodeUnknown,
                                         "failed to unmarshal response body",
                                         dec.err,
                                         DecodeFailureStatus(resp.StatusCode)),
               result |-> result]
         ELSE [err |-> NilErr, result |-> DecodeInto(result, dec)]

\* A plausible slip: a failed round trip is reported as a bad request.
DoHTTPRequest_badRequest(net) ==
    IF net.kind = "error"
    THEN NewErrorWithCause(ErrCodeHTTPRequestFailed, "failed to execute http request",
                           RawErr(net.cause), StatusBadRequest)
    ELSE NilErr

\* A plausible slip: the client's error is returned as it comes.
DoHTTPRequest_raw(net) ==
    IF net.kind = "error" THEN RawErr(net.cause) ELSE NilErr

\* DoHTTPRequest(client, req): the error returned. net is what client.Do does:
\* it fails with a cause, or it delivers a response.
DoHTTPRequest(net) ==
    IF net.kind = "error"
    THEN NewErrorWithCause(ErrCodeHTTPRequestFailed, "failed to execute http request",
                           RawErr(net.cause), StatusServiceUnavailable)
    ELSE NilErr

-----------------------------------------------------------------------------
(* vector: per-call options, request building, doRequest                    *)

requestIDHeader == "X-Tt-Logid"

EmptyMap == [k \in {} |-> ""]

defaultRequestOptions ==
    [MaxRetries |-> 0, Headers |-> EmptyMap, Query |-> EmptyMap, RequestID |-> ""]

\* RequestOption values. m is the caller's map a WithRequestHeaders or
\* WithRequestQueryParams closure holds: the closure reads it when it is
\* applied.
WithRequestMaxRetries(maxRetries) ==
    [opt |-> "WithRequestMaxRetries", k |-> "", v |-> "", n |-> maxRetries,
     m |-> EmptyMap]
WithRequestHeader(key, value) ==
    [opt |-> "WithRequestHeader", k |-> key, v |-> value, n |-> 0, m |-> EmptyMap]
WithRequestHeaders(headers) ==
    [opt |-> "WithRequestHeaders", k |-> "", v |-> "", n |-> 0, m |-> headers]
WithRequestQueryParam(key, value) ==
    [opt |-> "WithRequestQueryParam", k |-> key, v |-> value, n |-> 0,
     m |-> EmptyMap]
WithRequestQueryParams(params) ==
    [opt |-> "WithRequestQueryParams", k |-> "", v |-> "", n |-> 0, m |-> params]
WithRequestID(requestID) ==
    [opt |-> "WithRequestID", k |-> "", v |-> requestID, n |-> 0, m |-> EmptyMap]

\* opt(requestOpts)
ApplyRequestOption(o, ro) ==
    CASE ro.opt = "WithRequestMaxRetries" -> [o EXCEPT !.MaxRetries = ro.n]
      [] ro.opt = "WithRequestHeader" ->
            [o EXCEPT !.Headers = (ro.k :> ro.v) @@ o.Headers]
      [] ro.opt = "WithRequestHeaders" ->
            IF DOMAIN ro.m = {} THEN o
            ELSE [o EXCEPT !.Headers = ro.m @@ o.Headers]
      [] ro.opt = "WithRequestQueryParam" ->
            [o EXCEPT !.Query = (ro.k :> ro.v) @@ o.Query]
      [] ro.opt = "WithRequestQueryParams" ->
            IF DOMAIN ro.m = {} THEN o
            ELSE [o EXCEPT !.Query = ro.m @@ o.Query]
      [] ro.opt = "WithRequestID" -> [o EXCEPT !.RequestID = ro.v]

RECURSIVE ApplyRequestOptions(_, _)
\* doRequest, lines 306-309.
ApplyRequestOptions(o, opts) ==
    IF opts = << >> THEN o
    ELSE ApplyRequestOptions(ApplyRequestOption(o, Head(opts)), Tail(opts))

\* A plausible slip: one RequestOptions value is kept and reused, so what
\* the options of a call wrote is still there for the next call.
NewRequestOptions_reused(previous) == previous

\* requestOpts := defaultRequestOptions(): a new value with new, empty maps
\* for every call, whatever the RequestOptions of the call before held.
NewRequestOptions(previous) == defaultRequestOptions

\* A plausible slip: the per-call retry count is not looked at.
EffectiveRetries_noOverride(optMaxRetries, cfgMaxRetries) ==
    IF cfgMaxRetries < 0 THEN 0 ELSE cfgMaxRetries

\* A plausible slip: a per-call count of 0 is taken as "no retries".
EffectiveRetries_zeroHonoured(optMaxRetries, cfgMaxRetries) ==
    LET retries == IF optMaxRetries < 0 THEN cfgMaxRetries ELSE optMaxRetries
    IN  IF retries < 0 THEN 0 ELSE retries

\* doRequest, lines 311-317.
EffectiveRetries(optMaxRetries, cfgMaxRetries) ==
    LET retries == IF optMaxRetries <= 0 THEN cfgMaxRetries ELSE optMaxRetries
    IN  IF retries < 0 THEN 0 ELSE retries

\* A plausible slip: the serialisation error is dropped and the call goes on
\* with an empty body.
SerializeRequest_ignoreError(request) ==
    IF request \in {"nil", "unmarshalable"}
    THEN [err |-> NilErr, body |-> ""]
    ELSE [err |-> NilErr, body |-> "{\"collection_name\":\"c\"}"]

\* doRequest, lines 319-326: the body bytes, or the error that ends the call.
\* request is nil, a value json.Marshal accepts, or one it rejects.
SerializeRequest(request) ==
    CASE request = "nil" -> [err |-> NilErr, body |-> ""]
      [] request = "unmarshalable" ->
            [err |-> NewErrorWithCause(ErrCodeInvalidParameter,
                                       "failed to marshal request",
                                       RawErr("json: unsupported value"),
                                       StatusBadRequest),
             body |-> ""]
      [] OTHER -> [err |-> NilErr, body |-> "{\"collection_name\":\"c\"}"]

\* net/http's canonical form of the header keys of the model.
CanonicalHeaderKey(k) ==
    CASE k = "x-tt-logid" -> "X-Tt-Logid"
      [] k = "authorization" -> "Authorization"
      [] k = "accept" -> "Accept"
      [] k = "user-agent" -> "User-Agent"
      [] k = "content-type" -> "Content-Type"
      [] OTHER -> k

\* req.Header.Set(k, v)
HeaderSet(h, k, v) == (CanonicalHeaderKey(k) :> v) @@ h

\* A plausible slip: a per-call header is set only where the request has
\* no header of that name yet.
SetAll_keepExisting(h, m) ==
    LET keys == {CanonicalHeaderKey(x) : x \in DOMAIN m} IN
    [k \in DOMAIN h \cup keys |->
        IF k \in DOMAIN h THEN h[k]
        ELSE m[CHOOSE x \in DOMAIN m : CanonicalHeaderKey(x) = k]]

\* buildRequest, lines 372-374: the per-call headers set one by one (the maps
\* of the model hold no two keys with the same canonical form).
SetAll(h, m) ==
    LET keys == {CanonicalHeaderKey(x) : x \in DOMAIN m} IN
    [k \in DOMAIN h \cup keys |->
        IF k \in keys
        THEN m[CHOOSE x \in DOMAIN m : CanonicalHeaderKey(x) = k]
        ELSE h[k]]

defaultService == "vikingdb"

\* base.Credentials of the signing library: the zero value stands for a
\* request no signer has signed.
NoCredentials ==
    [AccessKeyID |-> "", SecretAccessKey |-> "", Service |-> "", Region |-> ""]

\* credential.Sign(req) of the signing library, which is not part of the
\* repository; from its contract: deterministic in its inputs, it adds the
\* authentication headers and leaves the rest of the request alone. The
\* headers it adds are not named here: signed is the credential they were
\* computed with, headers the headers the transport and the caller set.
CredentialsSign(credential, headers) ==
    [err |-> NilErr, headers |-> headers, signed |-> credential]

\* utils.SignRequestWithRegion(req, ak, sk, region), auth.go lines 23-31.
SignRequestWithRegion(headers, ak, sk, region) ==
    CredentialsSign([AccessKeyID |-> ak, SecretAccessKey |-> sk,
                     Service |-> defaultService, Region |-> region], headers)

\* A plausible slip: the request goes out unsigned.
AuthApply_noSign(auth, headers) ==
    [err |-> NilErr, headers |-> headers, signed |-> NoCredentials]

\* A plausible slip: the access-key authenticator signs without looking at
\* its keys.
AuthApply_unchecked(auth, headers) ==
    CASE auth.kind = "iamAuth" ->
            SignRequestWithRegion(headers, auth.ak, auth.sk, auth.region)
      [] auth.kind = "apiKeyAuth" /\ auth.token # "" ->
            [err |-> NilErr,
             headers |-> HeaderSet(headers, "Authorization",
                                   "Bearer " \o auth.token),
             signed |-> NoCredentials]
      [] OTHER -> [err |-> NilErr, headers |-> headers, signed |-> NoCredentials]

\* A plausible slip: the bearer token is written only when the request has
\* no Authorization header yet.
AuthApply_keepCaller(auth, headers) ==
    CASE auth.kind = "iamAuth" ->
            IF auth.ak = "" \/ auth.sk = ""
            THEN [err |-> NewInvalidParameterError(
                              "access key and secret key cannot be empty"),
                  headers |-> headers, signed |-> NoCredentials]
            ELSE SignRequestWithRegion(headers, auth.ak, auth.sk, auth.region)
      [] auth.kind = "apiKeyAuth" ->
            IF auth.token = "" \/ "Authorization" \in DOMAIN headers
            THEN [err |-> NilErr, headers |-> headers, signed |-> NoCredentials]
            ELSE [err |-> NilErr,
                  headers |-> HeaderSet(headers, "Authorization",
                                        "Bearer " \o auth.token),
                  signed |-> NoCredentials]
      [] OTHER -> [err |-> NilErr, headers |-> headers, signed |-> NoCredentials]

\* authenticator.apply (lines 138-171): the error, the headers of the
\* request returned and the credential it is signed with.
AuthApply(auth, headers) ==
    CASE auth.kind = "iamAuth" ->
            IF auth.ak = "" \/ auth.sk = ""
            THEN [err |-> NewInvalidParameterError(
                              "access key and secret key cannot be empty"),
                  headers |-> headers, signed |-> NoCredentials]
            ELSE SignRequestWithRegion(headers, auth.ak, auth.sk, auth.region)
      [] auth.kind = "apiKeyAuth" ->
            IF auth.token = ""
            THEN [err |-> NilErr, headers |-> headers, signed |-> NoCredentials]
            ELSE [err |-> NilErr,
                  headers |-> HeaderSet(headers, "Authorization",
                                        "Bearer " \o auth.token),
                  signed |-> NoCredentials]
      [] OTHER -> [err |-> NilErr, headers |-> headers, signed |-> NoCredentials]

\* buildRequest, lines 359-362: http.NewRequestWithContext rejects a method
\* that is not a token.
NewRequestError(method) ==
    IF method = "POST" THEN NilErr
    ELSE NewErrorWithCause(ErrCodeUnknown, "failed to create request",
                           RawErr("net/http: invalid method"), StatusBadRequest)

\* buildRequest, lines 354-359: for an empty body buf stays a nil
\* *bytes.Reader, which NewRequestWithContext gets as a non-nil io.Reader;
\* past its method check it calls Len() on the nil pointer and panics.
NilReaderPanics(body) == Len(body) = 0

\* buildRequest: the error, and the request handed to the HTTP client: its
\* headers, the query of its URL (lines 346-352) and the credential it is
\* signed with. panics says that it panicked: then it returns neither a
\* request nor an error.
buildRequest(t, method, path, body, opts) ==
    LET e == NewRequestError(method)
        h1 == IF Len(body) > 0
              THEN HeaderSet(EmptyMap, "Content-Type", "application/json")
              ELSE EmptyMap
        h2 == HeaderSet(h1, "Accept", "application/json")
        h3 == IF t.userAgent # "" THEN HeaderSet(h2, "User-Agent", t.userAgent)
              ELSE h2
        h4 == SetAll(h3, opts.Headers)
        h5 == IF opts.RequestID # "" THEN HeaderSet(h4, requestIDHeader, opts.RequestID)
              ELSE h4
        a == AuthApply(t.auth, h5)
    IN  IF e.type # "nil"
        THEN [err |-> e, headers |-> EmptyMap, query |-> EmptyMap,
              signed |-> NoCredentials, panics |-> FALSE]
        ELSE IF NilReaderPanics(body)
        THEN [err |-> NilErr, headers |-> EmptyMap, query |-> EmptyMap,
              signed |-> NoCredentials, panics |-> TRUE]
        ELSE IF a.err.type # "nil"
        THEN [err |-> a.err, headers |-> EmptyMap, query |-> EmptyMap,
              signed |-> NoCredentials, panics |-> FALSE]
        ELSE [err |-> NilErr, headers |-> a.headers, query |-> opts.Query,
              signed |-> a.signed, panics |-> FALSE]

\* The closure doRequest hands to Retry (lines 328-341): one attempt. net is
\* what the HTTP client does with the request. Gives the error returned, the
\* response target afterwards, whether a request was sent, and the headers
\* and the signature of the request built; panics says that the closure did
\* not return: buildRequest panicked.
Attempt(t, c, net) ==
    LET b == buildRequest(t, c.method, c.path, c.body, c.opts) IN
    IF b.panics \/ b.err.type # "nil"
    THEN [err |-> b.err, response |-> c.response, sent |-> 0,
          headers |-> b.headers, signed |-> b.signed, panics |-> b.panics]
    ELSE LET d == DoHTTPRequest(net) IN
         IF d.type # "nil"
         THEN [err |-> d, response |-> c.response, sent |-> 1,
               headers |-> b.headers, signed |-> b.signed, panics |-> FALSE]
         ELSE LET p == ParseResponse(net, c.response) IN
              [err |-> p.err, response |-> p.result, sent |-> 1,
               headers |-> b.headers, signed |-> b.signed, panics |-> FALSE]

-----------------------------------------------------------------------------
(* Inputs                                                                   *)

Auths ==
    {AuthNone}
    \cup {AuthIAM(a, k) : a \in {"", "ak"}, k \in {"", "sk"}}
    \cup {AuthAPIKey(k) : k \in {"", "token"}}

\* The option lists given to New.
OptionLists ==
    {<< >>,
     <<WithEndpoint("")>>,
     <<WithEndpoint("://bad")>>,
     <<WithEndpoint("host"), WithRegion(""), WithTimeout(0), WithUserAgent(""),
       WithMaxRetries(1)>>,
     <<WithEndpoint("http://host"), WithRegion("cn-shanghai"), WithTimeout(5),
       WithUserAgent("ua"), WithHTTPClient("custom"), WithMaxRetries(0)>>}
    \cup {<<WithEndpoint("https://host"), WithMaxRetries(n)>> :
              n \in -1 .. MaxCfgRetries}

\* What fn returns when Retry is called directly.
FnResults ==
    {NilErr, RawErr("boom"),
     NewErrorWithStatusCode(ErrCodeInvalidParameter, "m", 400),
     NewErrorWithStatusCode(ErrCodeNotFound, "m", 404),
     NewErrorWithStatusCode(ErrCodeUnknown, "m", 0),
     NewErrorWithStatusCode(ErrCodeUnknown, "m", 429),
     NewErrorWithStatusCode(ErrCodeUnknown, "m", 500),
     NewErrorWithStatusCode(ErrCodeUnknown, "m", 501),
     NewErrorWithStatusCode(ErrCodeUnknown, "m", 502),
     NewErrorWithStatusCode(ErrCodeUnknown, "m", 503),
     NewErrorWithStatusCode(ErrCodeUnknown, "m", 504),
     NewErrorWithStatusCode(ErrCodeServiceUnavailable, "m", 400),
     NewErrorWithStatusCode(ErrCodeTimeout, "m", 0),
     NewErrorWithStatusCode(ErrCodeRequestLimitExceeded, "m", 404)}

\* The calls made through a client: method, request value, response target
\* and per-call options.
CallShape(method, request, response, opts) ==
    [method |-> method, request |-> request, response |-> response, opts |-> opts]

CallShapes ==
    {CallShape("POST", "value", ZeroTarget, << >>),
     CallShape("POST", "nil", ZeroTarget, << >>),
     CallShape("POST", "value", NilTarget, << >>),
     CallShape("POST", "unmarshalable", ZeroTarget, << >>),
     CallShape("BAD METHOD", "value", ZeroTarget, << >>),
     CallShape("POST", "value", ZeroTarget, <<WithRequestID("rid")>>)}
    \cup {CallShape("POST", "value", ZeroTarget, <<WithRequestMaxRetries(n)>>) :
              n \in -1 .. MaxCfgRetries}

Statuses == {199, 200, 299, 300, 400, 429, 500}

Bodies ==
    {BodyEmpty, BodyNotJSON, BodyBadType,
     BodyObject("", "", "r1"), BodyObject("", "x", ""),
     BodyObject("ServiceUnavailable", "x", "r1"),
     BodyObject("InvalidParameter", "x", "r1")}

NetError(cause) ==
    [kind |-> "error", cause |-> cause, StatusCode |-> 0, body |-> BodyEmpty,
     readErr |-> FALSE]

Response(status, body, readErr) ==
    [kind |-> "response", cause |-> "", StatusCode |-> status, body |-> body,
     readErr |-> readErr]

\* No request sent yet.
NoNet ==
    [kind |-> "none", cause |-> "", StatusCode |-> 0, body |-> BodyEmpty,
     readErr |-> FALSE]

\* What the HTTP client does with one request.
NetOutcomes ==
    {NetError(c) : c \in {"connection refused", "context canceled",
                          "context deadline exceeded"}}
    \cup {Response(st, b, FALSE) : st \in Statuses, b \in Bodies}
    \cup {Response(200, BodyEmpty, TRUE)}

-----------------------------------------------------------------------------
(* State machine                                                            *)

NoClient ==
    [state |-> "none", auth |-> AuthNone, opts |-> << >>,
     transport |-> NoTransport, err |-> NilErr]

\* sent counts the requests handed to the HTTP client, net is what the client
\* did with the latest one, same says that it did the same with every one.
NoCall ==
    [pc |-> "none", method |-> "", path |-> "", request |-> "nil",
     opts |-> defaultRequestOptions, retries |-> 0, body |-> "",
     response |-> NilTarget, sent |-> 0, headers |-> EmptyMap,
     net |-> NoNet, same |-> TRUE, ret |-> NilErr]

Init ==
    /\ client = NoClient
    /\ call = NoCall
    /\ retry = RetryIdle

\* client, err := vector.New(auth, opts...)
NewClient(auth, opts) ==
    /\ client.state = "none"
    /\ retry.pc = "idle"
    /\ LET r == New(auth, opts) IN
       client' = [state |-> IF r.err.type = "nil" THEN "ok" ELSE "failed",
                  auth |-> auth, opts |-> opts,
                  transport |-> r.transport, err |-> r.err]
    /\ UNCHANGED <<call, retry>>

\* utils.Retry(maxRetries, fn, shouldRetry) called on its own.
CallRetry(maxRetries, shouldRetry) ==
    /\ client.state = "none"
    /\ retry.pc = "idle"
    /\ retry' = RetryEntry(maxRetries, shouldRetry, "direct")
    /\ UNCHANGED <<client, call>>

\* One invocation of fn by a Retry called on its own.
AttemptDirect(err) ==
    /\ retry.pc = "attempt"
    /\ retry.fn = "direct"
    /\ retry' = RetryStep(retry, err)
    /\ UNCHANGED <<client, call>>

\* The backoff sleep before a later attempt.
Sleep(jitter) ==
    /\ retry.pc = "sleep"
    /\ retry' = RetrySlept(retry, jitter)
    /\ UNCHANGED <<client, call>>

\* The caller of a Retry called on its own takes the result.
RetryReturn ==
    /\ retry.pc = "done"
    /\ retry.fn = "direct"
    /\ retry' = RetryIdle
    /\ UNCHANGED <<client, call>>

\* transport.doRequest up to its call of Retry (lines 301-328).
DoRequest(shape) ==
    /\ client.state = "ok"
    /\ call.pc = "none"
    /\ retry.pc = "idle"
    /\ LET requestOpts == ApplyRequestOptions(defaultRequestOptions, shape.opts)
           retries == EffectiveRetries(requestOpts.MaxRetries,
                                       client.transport.config.MaxRetries)
           ser == SerializeRequest(shape.request)
           c == [pc |-> "running", method |-> shape.method,
                 path |-> "/api/vikingdb/data/upsert", request |-> shape.request,
                 opts |-> requestOpts, retries |-> retries, body |-> ser.body,
                 response |-> shape.response, sent |-> 0, headers |-> EmptyMap,
                 net |-> NoNet, same |-> TRUE, ret |-> NilErr]
       IN  IF ser.err.type # "nil"
           THEN /\ call' = [c EXCEPT !.pc = "returned", !.ret = ser.err]
                /\ UNCHANGED retry
           ELSE /\ call' = c
                /\ retry' = RetryEntry(retries, "IsRetryableError", "doRequest")
    /\ UNCHANGED client

\* One attempt of a call: build, sign, send, decode; Retry decides what
\* follows, and doRequest returns what Retry returns. A panic of the attempt
\* ends the call without a return.
AttemptHTTP(net) ==
    /\ retry.pc = "attempt"
    /\ retry.fn = "doRequest"
    /\ LET a == Attempt(client.transport, call, net)
           r == IF a.panics THEN RetryPanicked(retry) ELSE RetryStep(retry, a.err)
       IN  /\ retry' = r
           /\ call' = [call EXCEPT !.response = a.response,
                                   !.sent = @ + a.sent,
                                   !.headers = a.headers,
                                   !.net = IF a.sent = 1 THEN net ELSE @,
                                   !.same = IF a.sent = 1
                                            THEN (call.sent = 0) \/ (@ /\ net = call.net)
                                            ELSE @,
                                   !.pc = CASE r.pc = "done" -> "returned"
                                            [] r.pc = "panicked" -> "panicked"
                                            [] OTHER -> @,
                                   !.ret = r.ret]
    /\ UNCHANGED client

\* The caller takes the result of doRequest; the client serves the next call.
CallReturn ==
    /\ call.pc = "returned"
    /\ call' = NoCall
    /\ retry' = RetryIdle
    /\ UNCHANGED client

Next ==
    \/ \E auth \in Auths, opts \in OptionLists : NewClient(auth, opts)
    \/ \E m \in -2 .. MaxDirectRetries, k \in ShouldRetryKinds : CallRetry(m, k)
    \/ \E err \in FnResults : AttemptDirect(err)
    \/ \E jitter \in JitterChoices(retry.delay) : Sleep(jitter)
    \/ RetryReturn
    \/ \E shape \in CallShapes : DoRequest(shape)
    \/ \E net \in NetOutcomes : AttemptHTTP(net)
    \/ CallReturn

Spec == Init /\ [][Next]_vars

-----------------------------------------------------------------------------
(* Properties                                                               *)

\* fn was invoked in this step.
FnInvoked == retry'.calls = retry.calls + 1

\* shouldRetry is a predicate and answers false for err.
AnswersFalse(shouldRetry, err) ==
    shouldRetry # "nil" /\ ~ApplyShouldRetry(shouldRetry, err)

\* C1: when an attempt of fn fails with an error for which shouldRetry
\* returns false, Retry returns that same error at once and fn is not invoked
\* again; such a failure of the first attempt leaves one call and no sleep.
C1_NonRetryableEndsRetry ==
    /\ [][(FnInvoked /\ retry'.err.type # "nil"
             /\ AnswersFalse(retry.shouldRetry, retry'.err))
          => (retry'.pc = "done" /\ retry'.ret = retry'.err
              /\ (retry.calls = 0 => retry'.calls = 1 /\ retry'.sleeps = 0))]_vars
    /\ [][retry.pc = "done" => ~FnInvoked /\ retry'.sleeps <= retry.sleeps]_vars

C1_Witness ==
    /\ retry.pc = "done"
    /\ retry.fn = "direct"
    /\ retry.maxRetries >= 2
    /\ retry.shouldRetry = "IsRetryableError"
    /\ retry.calls = 1
    /\ retry.sleeps = 0
    /\ retry.ret = NewErrorWithStatusCode(ErrCodeInvalidParameter, "m", 400)

\* C2: when every attempt fails with an error for which shouldRetry returns
\* true, fn is invoked exactly maxRetries+1 times, for every maxRetries >= 0,
\* and Retry returns the error of the last attempt. (A Retry that returns an
\* error its predicate accepts has seen nothing but such errors: a success
\* or a rejected error would have ended it.)
C2_ExhaustsAllAttempts ==
    /\ retry.calls <= retry.maxRetries + 1
    /\ (retry.pc \in {"attempt", "sleep"} /\ retry.calls > 0)
          => (retry.err.type # "nil" /\ ~AnswersFalse(retry.shouldRetry, retry.err)
              /\ retry.calls <= retry.maxRetries)
    /\ (retry.pc = "done" /\ retry.arg >= 0 /\ retry.err.type # "nil"
          /\ retry.shouldRetry # "nil"
          /\ ApplyShouldRetry(retry.shouldRetry, retry.err))
          => (retry.calls = retry.arg + 1 /\ retry.ret = retry.err)

C2_Witness ==
    /\ retry.pc = "done"
    /\ retry.fn = "direct"
    /\ retry.arg = 3
    /\ retry.calls = 4
    /\ retry.shouldRetry = "always"
    /\ retry.ret = RawErr("boom")

\* The retry count the options given to New configure.
ConfiguredRetries == ApplyClientOptions(DefaultConfig, client.opts).MaxRetries

\* C3: Retry with maxRetries = 0 makes exactly one attempt and no sleep
\* whatever the outcome, a negative maxRetries behaves as 0, and a transport
\* configured with a negative retry count behaves as one configured with 0.
C3_ZeroAndNegativeRetries ==
    /\ (retry.pc # "idle" /\ retry.arg <= 0)
          => /\ retry.maxRetries = 0
             /\ retry.sleeps = 0
             /\ retry.pc # "sleep"
             /\ retry.calls = (IF retry.pc \in {"done", "panicked"} THEN 1 ELSE 0)
             /\ (retry.pc = "done" => retry.ret = retry.err)
    /\ (client.state = "ok" /\ ConfiguredRetries <= 0)
          => /\ client.transport.config.MaxRetries = 0
             /\ (call.pc # "none" /\ call.opts.MaxRetries <= 0) => call.retries = 0

C3_Witness ==
    /\ retry.pc = "done"
    /\ retry.fn = "direct"
    /\ retry.arg = -2
    /\ retry.shouldRetry = "always"
    /\ retry.calls = 1
    /\ retry.ret = NewErrorWithStatusCode(ErrCodeUnknown, "m", 503)

\* C4: for every k >= 1 the backoff sleep between attempt k and attempt k+1
\* lies in [min(base*2^(k-1), ceiling), min(base*2^k, ceiling)], with base
\* 100ms and ceiling 10s, whatever the jitter.
C4_BackoffInterval ==
    (retry.pc = "attempt" /\ retry.attempt >= 1)
        => LET k == retry.attempt IN
           /\ retry.sleeps = k
           /\ Min(100 * 2^(k-1), 10000) <= retry.sleepFor
           /\ retry.sleepFor <= Min(100 * 2^k, 10000)

C4_Witness ==
    /\ retry.pc = "attempt"
    /\ retry.attempt = 7
    /\ retry.sleepFor = 10000

\* What the claim says is retryable.
C5_Retryable(e) ==
    /\ e.type = "sdk"
    /\ \/ e.StatusCode \in {429, 500, 502, 503, 504}
       \/ e.Code \in {"ServiceUnavailable", "Timeout", "RequestLimitExceeded"}

\* C5: IsRetryableError is true exactly for an SDK error whose status is one
\* of 429, 500, 502, 503, 504 or whose code is one of ServiceUnavailable,
\* Timeout, RequestLimitExceeded; false for nil, for other error types and
\* for every other SDK error. Stated of every value fn returns, and of what
\* a Retry that uses the predicate does with it.
C5_RetryablePredicate ==
    /\ IsRetryableError(retry.err) <=> C5_Retryable(retry.err)
    /\ (retry.shouldRetry = "IsRetryableError" /\ retry.pc = "sleep")
          => C5_Retryable(retry.err)
    /\ (retry.shouldRetry = "IsRetryableError" /\ retry.pc = "done"
          /\ retry.err.type # "nil" /\ retry.calls <= retry.maxRetries)
          => ~C5_Retryable(retry.err)

C5_Witness ==
    /\ retry.pc = "sleep"
    /\ retry.shouldRetry = "IsRetryableError"
    /\ retry.err = NewErrorWithStatusCode(ErrCodeUnknown, "m", 502)

\* C6: a call whose every HTTP response has status 429 and an empty body,
\* with an effective retry count of 2, makes exactly 3 HTTP attempts and then
\* returns an SDK error with StatusCode 429 and the code Unknown.
C6_Always429 ==
    (call.pc = "returned" /\ call.retries = 2 /\ call.sent > 0 /\ call.same
       /\ call.net = Response(429, BodyEmpty, FALSE))
        => /\ call.sent = 3
           /\ retry.calls = 3
           /\ call.ret.type = "sdk"
           /\ call.ret.StatusCode = 429
           /\ call.ret.Code = "Unknown"

C6_Witness ==
    /\ call.pc = "returned"
    /\ call.retries = 2
    /\ call.same
    /\ call.sent = 3
    /\ call.net = Response(429, BodyEmpty, FALSE)
    /\ call.ret.StatusCode = 429

\* The endpoint New works with: the default, or what the options set.
EffectiveEndpoint == ApplyClientOptions(DefaultConfig, client.opts).Endpoint

ValidEndpoint == EffectiveEndpoint # "" /\ ~UrlParse(EffectiveEndpoint).err

MissingSecret ==
    \/ client.auth.kind = "authKindIAM"
         /\ (client.auth.accessKey = "" \/ client.auth.secretKey = "")
    \/ client.auth.kind = "authKindAPIKey" /\ client.auth.apiKey = ""

FullCredential ==
    \/ client.auth.kind = "authKindIAM"
         /\ client.auth.accessKey # "" /\ client.auth.secretKey # ""
    \/ client.auth.kind = "authKindAPIKey" /\ client.auth.apiKey # ""

FailedInvalidParameter ==
    /\ client.state = "failed"
    /\ client.transport = NoTransport
    /\ client.err.type = "sdk"
    /\ client.err.Code = "InvalidParameter"

\* C7: New fails with an InvalidParameter-class SDK error and returns no
\* client for the access-key kind with an empty access key or secret key and
\* for the bearer kind with an empty token; with a complete credential of
\* either kind and a valid endpoint it succeeds and returns a client.
C7_CredentialValidation ==
    client.state # "none"
        => /\ MissingSecret => FailedInvalidParameter
           /\ (FullCredential /\ ValidEndpoint)
                 => (client.state = "ok" /\ client.err = NilErr
                     /\ client.transport # NoTransport)

C7_Witness ==
    /\ client.state = "failed"
    /\ client.auth = AuthIAM("ak", "")
    /\ ValidEndpoint

\* C8: the none credential is usable: a transport is built with AuthNone and
\* a valid endpoint, and its authenticator passes requests through.
C8_AuthNoneUsable ==
    (client.state # "none" /\ client.auth = AuthNone /\ ValidEndpoint)
        => (client.state = "ok" /\ client.transport.auth = noAuth)

EndpointSupplied ==
    \E i \in 1 .. Len(client.opts) :
        client.opts[i].opt = "WithEndpoint" /\ client.opts[i].s # ""

\* C9 as claimed: construction fails with an InvalidParameter-class error
\* whenever the caller supplied no endpoint (unset or empty).
C9_EndpointRequired ==
    (client.state # "none" /\ ~EndpointSupplied) => FailedInvalidParameter

\* C9, amended: construction fails at once with an InvalidParameter-class
\* error when the endpoint is set to the empty string, so no client exists
\* with an empty endpoint; when no endpoint option is given the endpoint of
\* DefaultConfig is used and construction goes on to the credential checks.
C9_EmptyEndpointRejected ==
    client.state # "none"
        => /\ EffectiveEndpoint = ""
                 => (FailedInvalidParameter /\ client.err.StatusCode = 400)
           /\ client.state = "ok" => client.transport.config.Endpoint # ""
           /\ (client.opts = << >> /\ FullCredential)
                 => (client.state = "ok"
                     /\ client.transport.config.Endpoint = DefaultEndpoint)

C9_Witness ==
    /\ client.state = "failed"
    /\ client.opts = <<WithEndpoint("")>>
    /\ client.auth = AuthAPIKey("token")

\* C10: every non-nil error doRequest returns, and every error an attempt
\* hands to Retry, is the SDK error type, on every path.
C10_OnlySDKErrors ==
    /\ call.ret.type \in {"nil", "sdk"}
    /\ retry.fn = "doRequest"
          => (retry.err.type \in {"nil", "sdk"} /\ retry.ret.type \in {"nil", "sdk"})
    /\ (call.pc = "returned" /\ call.request = "unmarshalable")
          => (call.ret.Code = "InvalidParameter" /\ call.sent = 0)
    /\ (call.pc = "returned" /\ call.method # "POST"
          /\ call.request # "unmarshalable")
          => (call.ret.type = "sdk" /\ call.sent = 0)

C10_Witness ==
    /\ call.pc = "returned"
    /\ call.ret.type = "sdk"
    /\ call.ret.Code = "HTTPRequestFailed"
    /\ call.ret.Err = "connection refused"

\* What client.Do returns when the context of the request is cancelled or
\* its deadline passes while the request is in flight.
Cancellations == {"context canceled", "context deadline exceeded"}

\* The error of an attempt whose request met a network failure.
NetworkFailureError == DoHTTPRequest(NetError("connection refused"))

\* C11: when the context of a call is cancelled or its deadline expires while
\* an HTTP attempt is in flight, the error of that attempt is not reported
\* with the SDK error code and status of a network failure.
C11_CancellationDistinct ==
    (retry.fn = "doRequest" /\ call.sent > 0 /\ retry.err.type # "nil"
       /\ call.net.kind = "error" /\ call.net.cause \in Cancellations)
        => ~(retry.err.Code = NetworkFailureError.Code
             /\ retry.err.StatusCode = NetworkFailureError.StatusCode)

-----------------------------------------------------------------------------
(* Concurrent calls through one client                                      *)
(* Each goroutine runs doRequest with its own context. Under ConcSpec the   *)
(* variables call and retry hold one record per goroutine; the client is    *)
(* the one transport they share.                                            *)

NumCalls == 2

Calls == 1 .. NumCalls

\* The client the goroutines share.
ConcClient ==
    LET auth == AuthAPIKey("token")
        opts == <<WithEndpoint("https://host"), WithMaxRetries(1)>>
        r == New(auth, opts)
    IN  [state |-> "ok", auth |-> auth, opts |-> opts,
         transport |-> r.transport, err |-> r.err]

\* What the service answers to one request.
ServerAnswers ==
    {Response(200, BodyObject("", "", "r1"), FALSE),
     Response(503, BodyEmpty, FALSE),
     Response(400, BodyObject("InvalidParameter", "x", "r1"), FALSE)}

\* client.Do(req) for a request made with NewRequestWithContext(ctx, ...):
\* ctxErr is ctx.Err() when the round trip ends ("" while ctx is live), answer
\* is what the service sends back.
ClientDo(ctxErr, answer) ==
    IF ctxErr # "" THEN NetError(ctxErr) ELSE answer

\* A plausible slip: every request carries the context of the first call.
RequestCtx_shared(i) == 1

\* The context the requests of goroutine i carry: the ctx parameter of its
\* own doRequest, handed to buildRequest and to NewRequestWithContext.
RequestCtx(i) == i

\* A goroutine that has not called yet. ctx is the error of its context, ""
\* while it is live; alone is Retry's state in a run of the same call that
\* gets the same answers from the service and the same jitter with no
\* context cancelled anywhere.
IdleCall == [ctx |-> "", alone |-> RetryIdle] @@ NoCall

ConcInit ==
    /\ client = ConcClient
    /\ call = [i \in Calls |-> IdleCall]
    /\ retry = [i \in Calls |-> RetryIdle]

\* Goroutine i calls doRequest (lines 301-328).
Start(i) ==
    /\ call[i].pc = "none"
    /\ LET requestOpts == ApplyRequestOptions(defaultRequestOptions, << >>)
           retries == EffectiveRetries(requestOpts.MaxRetries,
                                       client.transport.config.MaxRetries)
           ser == SerializeRequest("value")
           entry == RetryEntry(retries, "IsRetryableError", "doRequest")
       IN  /\ call' = [call EXCEPT ![i] =
                          [@ EXCEPT !.pc = "running", !.method = "POST",
                                    !.path = "/api/vikingdb/data/upsert",
                                    !.request = "value", !.opts = requestOpts,
                                    !.retries = retries, !.body = ser.body,
                                    !.response = ZeroTarget,
                                    !.alone = IF call[i].ctx = "" THEN entry
                                              ELSE RetryIdle]]
           /\ retry' = [retry EXCEPT ![i] = entry]
    /\ UNCHANGED client

\* The context of goroutine i is cancelled, or its deadline passes, before
\* the call has returned.
Cancel(i, cause) ==
    /\ call[i].ctx = ""
    /\ call[i].pc # "returned"
    /\ call' = [call EXCEPT ![i] = [@ EXCEPT !.ctx = cause, !.alone = RetryIdle]]
    /\ UNCHANGED <<client, retry>>

\* Goroutine i builds its request and hands it to the HTTP client.
Send(i) ==
    /\ call[i].pc = "running"
    /\ retry[i].pc = "attempt"
    /\ call' = [call EXCEPT ![i] = [@ EXCEPT !.pc = "inflight"]]
    /\ UNCHANGED <<client, retry>>

\* client.Do of goroutine i returns (DoHTTPRequest, part_007:15-21): with
\* the error of the request's context when that is done, and the attempt ends
\* there; else with the response, its body still to be read.
Respond(i, answer) ==
    /\ call[i].pc = "inflight"
    /\ LET net == ClientDo(call[RequestCtx(i)].ctx, answer)
           a == Attempt(client.transport, call[i], net)
           r == RetryStep(retry[i], a.err)
           b == Attempt(client.transport, call[i], answer)
       IN  IF net.kind = "error"
           THEN /\ retry' = [retry EXCEPT ![i] = r]
                /\ call' = [call EXCEPT ![i] =
                               [@ EXCEPT !.sent = @ + a.sent,
                                         !.headers = a.headers,
                                         !.net = net,
                                         !.pc = IF r.pc = "done" THEN "returned"
                                                ELSE "running",
                                         !.ret = r.ret,
                                         !.alone = IF call[i].ctx = ""
                                                   THEN RetryStep(@, b.err) ELSE @]]
           ELSE /\ call' = [call EXCEPT ![i] = [@ EXCEPT !.pc = "reading",
                                                         !.net = net]]
                /\ UNCHANGED retry
    /\ UNCHANGED client

\* The body of the response is read under the request's context
\* (ParseResponse, part_007:25): once that context is done the read fails
\* with its error, unless the bytes had arrived already (lost says which);
\* then the attempt decodes and Retry decides.
ReadBody(i, lost) ==
    /\ call[i].pc = "reading"
    /\ lost => call[RequestCtx(i)].ctx # ""
    /\ LET net == IF lost
                  THEN [call[i].net EXCEPT !.readErr = TRUE,
                                           !.cause = call[RequestCtx(i)].ctx]
                  ELSE call[i].net
           a == Attempt(client.transport, call[i], net)
           r == RetryStep(retry[i], a.err)
           b == Attempt(client.transport, call[i], call[i].net)
       IN  /\ retry' = [retry EXCEPT ![i] = r]
           /\ call' = [call EXCEPT ![i] =
                          [@ EXCEPT !.response = a.response,
                                    !.sent = @ + a.sent,
                                    !.headers = a.headers,
                                    !.net = net,
                                    !.pc = IF r.pc = "done" THEN "returned"
                                           ELSE "running",
                                    !.ret = r.ret,
                                    !.alone = IF call[i].ctx = ""
                                              THEN RetryStep(@, b.err) ELSE @]]
    /\ UNCHANGED client

\* The backoff sleep of goroutine i.
Backoff(i, jitter) ==
    /\ call[i].pc = "running"
    /\ retry[i].pc = "sleep"
    /\ retry' = [retry EXCEPT ![i] = RetrySlept(@, jitter)]
    /\ call' = [call EXCEPT ![i] =
                   [@ EXCEPT !.alone = IF call[i].ctx = ""
                                       THEN RetrySlept(@, jitter) ELSE @]]
    /\ UNCHANGED client

ConcNext ==
    \/ \E i \in Calls : Start(i)
    \/ \E i \in Calls, cause \in Cancellations : Cancel(i, cause)
    \/ \E i \in Calls : Send(i)
    \/ \E i \in Calls, answer \in ServerAnswers : Respond(i, answer)
    \/ \E i \in Calls, lost \in BOOLEAN : ReadBody(i, lost)
    \/ \E i \in Calls : \E jitter \in JitterChoices(retry[i].delay) : Backoff(i, jitter)

ConcSpec == ConcInit /\ [][ConcNext]_vars

\* C12: of the calls running concurrently through one client, cancelling the
\* context of one changes nothing for another: a call whose own context is
\* live makes the attempts, takes the sleeps and returns the result it has
\* in a run where no context is cancelled, under every interleaving, and no
\* attempt of it ends with a cancellation.
C12_CancellationIsolated ==
    \A j \in Calls :
        call[j].ctx = ""
            => /\ retry[j] = call[j].alone
               /\ call[j].sent = call[j].alone.calls
               /\ call[j].ret = call[j].alone.ret
               /\ retry[j].err.Err \notin Cancellations
               /\ call[j].net.kind # "error"

C12_Witness ==
    /\ call[1].ctx = "context canceled"
    /\ call[1].pc = "returned"
    /\ call[1].ret.Code = "HTTPRequestFailed"
    /\ call[2].ctx = ""
    /\ call[2].pc = "returned"
    /\ call[2].sent = 2
    /\ retry[2].sleeps = 1
    /\ call[2].ret = NilErr
    /\ call[2].response.RequestID = "r1"

\* C13: a call that carries a per-call retry count n > 0 runs with the
\* effective retry count n whatever the retry count m >= 0 of its transport
\* (n < m and n > m alike), and when it ends with a retryable error, every
\* attempt having failed so, it has made exactly n+1 attempts.
C13_OverrideTakesPrecedence ==
    (call.pc # "none" /\ call.opts.MaxRetries > 0)
        => LET n == call.opts.MaxRetries IN
           /\ call.retries = n
           /\ retry.fn = "doRequest" => (retry.arg = n /\ retry.maxRetries = n)
           /\ (call.pc = "returned" /\ retry.fn = "doRequest"
                 /\ IsRetryableError(call.ret))
                 => (retry.calls = n + 1 /\ retry.sleeps = n)

C13_Witness ==
    /\ client.transport.config.MaxRetries = 1
    /\ call.opts.MaxRetries = 2
    /\ call.pc = "returned"
    /\ retry.calls = 3
    /\ call.sent = 3
    /\ call.ret.StatusCode = 503

\* The latest attempt of the call got an HTTP response and read its body.
Decoded ==
    /\ retry.fn = "doRequest"
    /\ call.sent > 0
    /\ call.net.kind = "response"
    /\ ~call.net.readErr

\* ... and the status of that response is outside [200, 300).
DecodedNonSuccess ==
    Decoded /\ (call.net.StatusCode < 200 \/ call.net.StatusCode >= 300)

\* The body parses as the error envelope {code, message, request_id}.
ParsesAsEnvelope(body) == body.kind = "object"

\* The SDK error that carries the envelope of body and the HTTP status.
EnvelopeError(body, status) ==
    [type |-> "sdk", Code |-> body.code, Message |-> body.message,
     StatusCode |-> status, RequestID |-> body.request_id, Err |-> "nil"]

\* C14 as claimed: for a response with a status outside [200, 300) whose
\* body parses as the error envelope, the attempt returns the SDK error carrying exactly the
\* envelope's code, message and request id and the HTTP status as soon as one
\* of the three fields is non-empty, a lone request_id included; the generic
\* Unknown error comes only when parsing fails or all three are empty.
C14_AnyEnvelopeField ==
    DecodedNonSuccess
        => LET body == call.net.body IN
           IF ParsesAsEnvelope(body)
              /\ (body.code # "" \/ body.message # "" \/ body.request_id # "")
           THEN retry.err = EnvelopeError(body, call.net.StatusCode)
           ELSE retry.err.Code = "Unknown"

\* C14, amended: for a response with a status outside [200, 300) whose body
\* parses as the error envelope, the attempt returns the SDK error carrying
\* exactly the envelope's code, message and request id and the HTTP status
\* when the code or the message is non-empty; when both are empty, a
\* non-empty request_id notwithstanding, or when parsing fails, it returns
\* the generic Unknown error with that status and no request id.
C14_CodeOrMessage ==
    DecodedNonSuccess
        => LET body == call.net.body IN
           IF ParsesAsEnvelope(body) /\ (body.code # "" \/ body.message # "")
           THEN retry.err = EnvelopeError(body, call.net.StatusCode)
           ELSE /\ retry.err.type = "sdk"
                /\ retry.err.Code = "Unknown"
                /\ retry.err.StatusCode = call.net.StatusCode
                /\ retry.err.RequestID = ""

C14_Witness ==
    /\ call.pc = "returned"
    /\ call.net = Response(400, BodyObject("", "", "r1"), FALSE)
    /\ call.ret.Code = "Unknown"
    /\ call.ret.RequestID = ""
    /\ call.sent = 1

\* C15: for every response with a status outside [200, 300) whose error
\* envelope has a non-empty code, the SDK error returned has the Code of the
\* envelope verbatim, its message, its request_id, and the HTTP status of the
\* response as StatusCode.
C15_EnvelopeVerbatim ==
    (DecodedNonSuccess /\ ParsesAsEnvelope(call.net.body)
       /\ call.net.body.code # "")
        => /\ retry.err.type = "sdk"
           /\ retry.err.Code = call.net.body.code
           /\ retry.err.Message = call.net.body.message
           /\ retry.err.RequestID = call.net.body.request_id
           /\ retry.err.StatusCode = call.net.StatusCode
           /\ (call.pc = "returned" /\ retry.pc = "done") => call.ret = retry.err

C15_Witness ==
    /\ call.pc = "returned"
    /\ call.net = Response(500, BodyObject("ServiceUnavailable", "x", "r1"), FALSE)
    /\ call.ret.Code = "ServiceUnavailable"
    /\ call.ret.Message = "x"
    /\ call.ret.RequestID = "r1"
    /\ call.ret.StatusCode = 500

\* The body is empty or is not the error envelope: not JSON, or JSON of
\* another shape.
Unrecognised(body) == body.kind \in {"empty", "notjson", "badtype"}

\* C16: for a response with a status outside [200, 300) whose body is empty
\* or is not a recognised error envelope, the attempt returns a generic SDK
\* error with the code Unknown, the HTTP status of the response as
\* StatusCode, and a message that holds the status and the raw body text.
C16_GenericFallback ==
    (DecodedNonSuccess /\ Unrecognised(call.net.body))
        => /\ retry.err.type = "sdk"
           /\ retry.err.Code = "Unknown"
           /\ retry.err.StatusCode = call.net.StatusCode
           /\ retry.err.Message =
                 "unexpected " \o ToString(call.net.StatusCode) \o " response: "
                     \o BodyText(call.net.body)

C16_Witness ==
    /\ call.pc = "returned"
    /\ call.net = Response(400, BodyNotJSON, FALSE)
    /\ call.ret.Code = "Unknown"
    /\ call.ret.StatusCode = 400
    /\ call.ret.Message = "unexpected 400 response: <html>"

\* This step is an attempt that got an HTTP response and read its body.
DecodeStep ==
    /\ retry.fn = "doRequest"
    /\ FnInvoked
    /\ call'.sent = call.sent + 1
    /\ call'.net.kind = "response"
    /\ ~call'.net.readErr

\* C17: the decoder treats exactly the statuses 200 <= s < 300 as success:
\* a response with any other status, 199 and 300 included, gives an error,
\* and a response with such a status gives none unless its body fails to
\* decode; for a success status with a nil target or an empty body the
\* attempt returns nil and leaves the target as it was.
C17_SuccessStatuses ==
    /\ [](Decoded =>
            LET s == call.net.StatusCode IN
            /\ (s < 200 \/ s >= 300) => retry.err.type = "sdk"
            /\ (retry.err.type = "nil") => (200 <= s /\ s < 300)
            /\ (200 <= s /\ s < 300 /\ retry.err.type # "nil")
                  => (~call.response.nil /\ call.net.body.kind \in {"notjson", "badtype"}))
    /\ [][(DecodeStep /\ 200 <= call'.net.StatusCode /\ call'.net.StatusCode < 300
             /\ (call.response.nil \/ call'.net.body.kind = "empty"))
          => (retry'.err = NilErr /\ call'.ret = NilErr
              /\ call'.pc = "returned" /\ call'.response = call.response)]_vars

C17_Witness ==
    /\ call.pc = "returned"
    /\ call.net = Response(299, BodyObject("ServiceUnavailable", "x", "r1"), FALSE)
    /\ call.response = NilTarget
    /\ call.ret = NilErr
    /\ call.sent = 1

-----------------------------------------------------------------------------
(* The decoder on its own                                                   *)
(* Under DecodeSpec call holds an input (status and body bytes), the        *)
(* response the caller has at hand, whose body is a stream that a decode    *)
(* reads to its end, a target, and the results of the decodes made so far,  *)
(* all into the same target.                                                *)

MaxDecodes == 3

\* A target that already holds a decoded response.
PrefilledTarget ==
    [nil |-> FALSE, Code |-> "Success", Message |-> "old", RequestID |-> "r0",
     Score |-> NoValue]

Targets == {NilTarget, ZeroTarget, PrefilledTarget}

DecodeInputs ==
    {Response(st, b, FALSE) : st \in Statuses, b \in Bodies}
    \cup {Response(200, BodyEmpty, TRUE)}

\* resp after io.ReadAll(resp.Body) (part_007:25): the stream is at its end
\* and gives no more bytes; the failing stream of the model fails at every
\* read.
Drained(resp) == [resp EXCEPT !.body = BodyEmpty]

DecodeInit ==
    /\ client = NoClient
    /\ retry = RetryIdle
    /\ \E resp \in DecodeInputs, target \in Targets :
          call = [input |-> resp, net |-> resp, response |-> target,
                  results |-> << >>]

\* err := ParseResponse(resp, result), where resp is the response the
\* caller has at hand, or (renew) a new response with the status and the
\* bytes of the input.
Decode(renew) ==
    /\ Len(call.results) < MaxDecodes
    /\ renew => call.net # call.input
    /\ LET resp == IF renew THEN call.input ELSE call.net
           p == ParseResponse(resp, call.response)
       IN  call' = [call EXCEPT !.net = Drained(resp),
                                !.response = p.result,
                                !.results = Append(@, [err |-> p.err,
                                                       result |-> p.result])]
    /\ UNCHANGED <<client, retry>>

DecodeNext == \E renew \in BOOLEAN : Decode(renew)

DecodeSpec == DecodeInit /\ [][DecodeNext]_vars

\* C18: decoding is idempotent: the decodes of one input (status, body,
\* target) all give the same outcome, nil or an SDK error with the same
\* code, message, request id and status, and leave the target in the same
\* state; nothing an earlier decode changes alters a later one.
C18_DecodeIdempotent ==
    \A i, j \in 1 .. Len(call.results) :
        /\ call.results[i].err = call.results[j].err
        /\ call.results[i].result = call.results[j].result

-----------------------------------------------------------------------------
(* Numbers in untyped fields                                                *)
(* Under NumberSpec call holds a 2xx response whose body has a number as    *)
(* its field "score", such as {"score": 47}, the target ParseResponse       *)
(* decodes it into, and what the caller converts the untyped field of the   *)
(* target to.                                                               *)

MaxScore == 47

RECURSIVE IntText(_)
\* The decimal text of n >= 0.
IntText(n) ==
    IF n < 10 THEN <<DigitChars[n + 1]>>
    ELSE IntText(n \div 10) \o <<DigitChars[(n % 10) + 1]>>

\* The JSON number texts of the model: an optional sign, an integer part and
\* an optional fraction.
NumberTexts ==
    {sign \o IntText(n) \o frac :
        sign \in {<< >>, <<"-">>},
        n \in 0 .. MaxScore,
        frac \in {<< >>, <<".", "0">>, <<".", "5">>, <<".", "2", "5">>}}

\* v.(json.Number).Int64()
NumberInt64(v) ==
    IF v.type = "json.Number" THEN ParseInt(v.text) ELSE [err |-> TRUE, val |-> 0]

\* v.(json.Number).Float64()
NumberFloat64(v) ==
    IF v.type = "json.Number" THEN ParseFloat(v.text)
    ELSE [err |-> TRUE, val |-> Float(0, 0)]

NoConversion == [err |-> TRUE, val |-> 0]

\* A target whose untyped field holds the number of an earlier response.
ScoredTarget == [ZeroTarget EXCEPT !.Score = JSONNumber(<<"1", ".", "5">>)]

NumberInit ==
    /\ client = NoClient
    /\ retry = RetryIdle
    /\ \E text \in NumberTexts, target \in {ZeroTarget, ScoredTarget} :
          call = [pc |-> "body",
                  net |-> Response(200, BodyWithScore("r1", text), FALSE),
                  response |-> target, ret |-> NilErr,
                  asInt |-> NoConversion,
                  asFloat |-> [err |-> TRUE, val |-> Float(0, 0)]]

\* err := ParseResponse(resp, result): the 2xx body is decoded into the
\* target.
DecodeNumber ==
    /\ call.pc = "body"
    /\ LET p == ParseResponse(call.net, call.response)
       IN  call' = [call EXCEPT !.pc = "decoded", !.response = p.result,
                                !.ret = p.err]
    /\ UNCHANGED <<client, retry>>

\* The caller converts the field.
ConvertNumber ==
    /\ call.pc = "decoded"
    /\ call' = [call EXCEPT !.pc = "converted",
                            !.asInt = NumberInt64(call.response.Score),
                            !.asFloat = NumberFloat64(call.response.Score)]
    /\ UNCHANGED <<client, retry>>

NumberNext == DecodeNumber \/ ConvertNumber

NumberSpec == NumberInit /\ [][NumberNext]_vars

\* The text has a fractional part.
HasFraction(text) == \E i \in 1 .. Len(text) : text[i] = "."

\* C19: on the success path ParseResponse decodes a JSON number of the body
\* into an untyped field of the target so that its integer or float form is
\* kept: the decode succeeds and the field holds a json.Number, never a
\* float64, whose text is the number as the body wrote it, with a fraction
\* exactly when the body wrote one; the integer literal 47 converts to the
\* integer 47 and to the float 47.0, every integer literal n to the integer
\* n and the float n.0; a number written with a fractional part does not
\* convert to an integer and converts to a float that keeps the fraction.
C19_NumbersPreserved ==
    LET text == call.net.body.score
        score == call.response.Score
    IN
    /\ call.pc \in {"decoded", "converted"}
          => /\ call.ret = NilErr
             /\ score.type = "json.Number"
             /\ score.type # "float64"
             /\ score.text = text
             /\ HasFraction(score.text) <=> HasFraction(text)
             /\ call.response.RequestID = call.net.body.request_id
    /\ (call.pc = "converted" /\ text = <<"4", "7">>)
          => (call.asInt = [err |-> FALSE, val |-> 47]
              /\ call.asFloat = [err |-> FALSE, val |-> [mant |-> 47, exp |-> 0]])
    /\ (call.pc = "converted" /\ ~HasFraction(text))
          => (~call.asInt.err /\ ~call.asFloat.err
              /\ call.asFloat.val = [mant |-> call.asInt.val, exp |-> 0])
    /\ (call.pc = "converted" /\ HasFraction(text))
          => (call.asInt.err /\ ~call.asFloat.err
              /\ (text[Len(text)] # "0" => call.asFloat.val.exp < 0))

C19_Witness ==
    /\ call.pc = "converted"
    /\ call.net = Response(200, BodyWithScore("r1", <<"4", "7">>), FALSE)
    /\ call.response.Score = JSONNumber(<<"4", "7">>)
    /\ call.response.RequestID = "r1"
    /\ call.ret = NilErr
    /\ call.asInt.val = 47
    /\ call.asFloat.val = Float(47, 0)

\* The call is one a scoped client makes (Upsert): a request value and a
\* pointer to a typed response.
ScopedClientCall ==
    /\ call.pc \in {"running", "returned"}
    /\ call.method = "POST"
    /\ call.request = "value"
    /\ ~call.response.nil

\* C20: when the first HTTP response of a scoped-client operation is 2xx
\* with a JSON envelope whose request_id is r, the operation returns a nil
\* error and a typed response whose RequestID is r, after exactly one HTTP
\* attempt and no backoff sleep.
C20_FirstSuccessReturns ==
    (ScopedClientCall /\ Decoded /\ call.sent = 1
       /\ 200 <= call.net.StatusCode /\ call.net.StatusCode < 300
       /\ ParsesAsEnvelope(call.net.body))
        => /\ call.pc = "returned"
           /\ call.ret = NilErr
           /\ call.response.RequestID = call.net.body.request_id
           /\ retry.pc = "done"
           /\ retry.calls = 1
           /\ retry.sleeps = 0

C20_Witness ==
    /\ call.pc = "returned"
    /\ call.path = "/api/vikingdb/data/upsert"
    /\ call.retries = 3
    /\ call.net = Response(200, BodyObject("", "", "r1"), FALSE)
    /\ call.ret = NilErr
    /\ call.response.RequestID = "r1"
    /\ call.sent = 1
    /\ retry.sleeps = 0

-----------------------------------------------------------------------------
(* Request building on its own                                              *)
(* Under BuildSpec client is a built client and call holds the body bytes   *)
(* and the per-call options of one call, and the request buildRequest makes *)
(* of them.                                                                 *)

MaxOpts == 2

\* The per-call options a caller combines.
HeaderOptions ==
    {WithRequestHeader("X-Tt-Logid", "generic"),
     WithRequestHeader("x-tt-logid", "generic"),
     WithRequestHeader("Accept", "text/plain"),
     WithRequestHeader("user-agent", "caller"),
     WithRequestHeader("Content-Type", "text/xml"),
     WithRequestHeader("Authorization", "caller"),
     WithRequestHeader("X-Custom", "c"),
     WithRequestHeaders(("X-A" :> "1") @@ ("X-B" :> "2")),
     WithRequestHeaders(EmptyMap),
     WithRequestQueryParam("q", "1"),
     WithRequestQueryParams("a" :> "1"),
     WithRequestMaxRetries(1),
     WithRequestID("rid"),
     WithRequestID("")}

RECURSIVE OptionSeqs(_)
\* The option lists of length at most n.
OptionSeqs(n) ==
    IF n = 0 THEN {<< >>}
    ELSE LET shorter == OptionSeqs(n - 1) IN
         shorter \cup {Append(s, o) : s \in shorter, o \in HeaderOptions}

\* A client as New returns it.
ClientOf(auth, opts) ==
    LET r == New(auth, opts) IN
    [state |-> IF r.err.type = "nil" THEN "ok" ELSE "failed",
     auth |-> auth, opts |-> opts, transport |-> r.transport, err |-> r.err]

BuildClients ==
    {ClientOf(AuthAPIKey("token"), <<WithEndpoint("https://host")>>),
     ClientOf(AuthIAM("ak", "sk"),
              <<WithEndpoint("https://host"), WithUserAgent("ua")>>)}

NoRequest ==
    [err |-> NilErr, headers |-> EmptyMap, query |-> EmptyMap,
     signed |-> NoCredentials, panics |-> FALSE]

BuildInit ==
    /\ client \in BuildClients
    /\ retry = RetryIdle
    /\ \E body \in {"", SerializeRequest("value").body}, optlist \in OptionSeqs(MaxOpts) :
          call = [pc |-> "options", body |-> body, optlist |-> optlist,
                  prev |-> defaultRequestOptions,
                  opts |-> defaultRequestOptions, req |-> NoRequest]

\* doRequest applies the options (lines 306-309) and the attempt builds the
\* request (line 329); when buildRequest panics the call ends there and
\* the goroutine serves no further call.
BuildRequest ==
    /\ call.pc = "options"
    /\ LET requestOpts == ApplyRequestOptions(NewRequestOptions(call.prev),
                                              call.optlist)
           req == buildRequest(client.transport, "POST",
                               "/api/vikingdb/data/upsert", call.body, requestOpts)
       IN  call' = [call EXCEPT !.pc = IF req.panics THEN "panicked" ELSE "built",
                                !.opts = requestOpts,
                                !.req = req]
    /\ UNCHANGED <<client, retry>>

\* The call is over; the same client serves the next call, with other
\* options: none, or one of them. prev is the RequestOptions the call before
\* worked with.
NextCall(optlist) ==
    /\ call.pc = "built"
    /\ call' = [call EXCEPT !.pc = "options", !.optlist = optlist,
                            !.prev = call.opts, !.opts = defaultRequestOptions,
                            !.req = NoRequest]
    /\ UNCHANGED <<client, retry>>

\* Between making option i and the call, the caller writes to the map it
\* gave to WithRequestHeaders or WithRequestQueryParams: the option holds
\* the map itself, so the call sees the entry.
CallerWritesMap(i) ==
    /\ call.pc = "options"
    /\ i \in 1 .. Len(call.optlist)
    /\ call.optlist[i].opt \in {"WithRequestHeaders", "WithRequestQueryParams"}
    /\ "X-Late" \notin DOMAIN call.optlist[i].m
    /\ call' = [call EXCEPT !.optlist[i].m = ("X-Late" :> "late") @@ @]
    /\ UNCHANGED <<client, retry>>

BuildNext ==
    \/ BuildRequest
    \/ \E optlist \in OptionSeqs(1) : NextCall(optlist)
    \/ \E i \in 1 .. MaxOpts : CallerWritesMap(i)

BuildSpec == BuildInit /\ [][BuildNext]_vars

\* The request was built without error.
Built == call.pc = "built" /\ call.req.err.type = "nil"

\* C21: the request-id header X-Tt-Logid is reserved to the request-id
\* option: on a request built without a request id set through that option,
\* no generic per-call header has set the header.
C21_RequestIDHeaderReserved ==
    (Built /\ call.opts.RequestID = "")
        => requestIDHeader \notin DOMAIN call.req.headers

\* The keys of the per-call headers that name header k.
CallerKeys(k) == {x \in DOMAIN call.opts.Headers : CanonicalHeaderKey(x) = k}

\* The default the transport gives header k: "" where it gives none.
DefaultHeader(k) ==
    CASE k = "Accept" -> "application/json"
      [] k = "Content-Type" -> IF call.body # "" THEN "application/json" ELSE ""
      [] k = "User-Agent" -> client.transport.userAgent
      [] OTHER -> ""

\* What the precedence gives header k: the request-id option for the
\* request-id header, else the per-call header, else the default; "" stands
\* for no header.
ExpectedHeader(k) ==
    IF k = requestIDHeader /\ call.opts.RequestID # "" THEN call.opts.RequestID
    ELSE IF CallerKeys(k) # {}
         THEN call.opts.Headers[CHOOSE x \in CallerKeys(k) : TRUE]
    ELSE DefaultHeader(k)

\* The header names a request of the model can carry besides those of the
\* header maps.
HeaderNames ==
    {"Accept", "Content-Type", "User-Agent", "X-Tt-Logid", "X-Custom",
     "Authorization"}

\* Header k of the built request is what the three layers give it.
FollowsPrecedence(k) ==
    IF ExpectedHeader(k) = "" THEN k \notin DOMAIN call.req.headers
    ELSE k \in DOMAIN call.req.headers
         /\ call.req.headers[k] = ExpectedHeader(k)

\* C22 as stated: on every built request the value of each header is the
\* one of the highest of three layers that sets it: the defaults
\* (User-Agent, Accept, and Content-Type only for a non-empty body), over
\* them the per-call headers, over them the request-id option for
\* X-Tt-Logid; a header no layer sets is absent.
C22_ThreeLayers ==
    Built => \A k \in HeaderNames : FollowsPrecedence(k)

\* C22: on every built request the value of a header is the one of the
\* highest layer that sets it: the defaults (User-Agent, Accept, and
\* Content-Type only for a non-empty body), over them the per-call headers,
\* over them the request-id option for X-Tt-Logid, and over all of them the
\* authenticator, which acts last: with a bearer API key the Authorization
\* header is Bearer <the configured key> whatever a per-call header named
\* Authorization says, and with access keys the request that has the three
\* layers is handed to the signer with the configured credential; a header
\* no layer sets is absent.
C22_HeaderPrecedence ==
    Built =>
        /\ \A k \in HeaderNames \ {"Authorization"} : FollowsPrecedence(k)
        /\ client.transport.auth.kind = "apiKeyAuth"
              => /\ "Authorization" \in DOMAIN call.req.headers
                 /\ call.req.headers["Authorization"]
                       = "Bearer " \o client.transport.auth.token
                 /\ call.req.signed = NoCredentials
        /\ client.transport.auth.kind = "iamAuth"
              => call.req.signed
                    = [AccessKeyID |-> client.auth.accessKey,
                       SecretAccessKey |-> client.auth.secretKey,
                       Service |-> defaultService,
                       Region |-> client.transport.config.Region]

C22_Witness ==
    /\ Built
    /\ call.body # ""
    /\ client.transport.auth.kind = "apiKeyAuth"
    /\ call.optlist = <<WithRequestHeader("Authorization", "caller"),
                        WithRequestHeader("user-agent", "caller")>>
    /\ ExpectedHeader("Authorization") = "caller"
    /\ call.req.headers["Authorization"] = "Bearer token"
    /\ call.req.headers["User-Agent"] = "caller"
    /\ call.req.headers["Accept"] = "application/json"
    /\ call.req.headers["Content-Type"] = "application/json"

\* C23: when the HTTP client fails to execute a request, the attempt returns
\* the SDK error HTTPRequestFailed with status 503 wrapping the cause; the
\* error is retryable, so the call goes on to another attempt while it has
\* made fewer than retries+1, and returns that error once it has made
\* retries+1.
C23_NetworkFailureRetried ==
    (retry.fn = "doRequest" /\ call.sent > 0 /\ call.net.kind = "error")
        => /\ retry.err = [type |-> "sdk", Code |-> "HTTPRequestFailed",
                           Message |-> "failed to execute http request",
                           StatusCode |-> 503, RequestID |-> "",
                           Err |-> call.net.cause]
           /\ IsRetryableError(retry.err)
           /\ retry.pc \in {"sleep", "attempt"} => retry.calls <= call.retries
           /\ retry.pc = "done"
                 => (retry.calls = call.retries + 1 /\ call.sent = retry.calls
                     /\ call.pc = "returned" /\ call.ret = retry.err)

C23_Witness ==
    /\ call.pc = "returned"
    /\ call.retries = 3
    /\ call.same
    /\ call.net = NetError("connection refused")
    /\ call.sent = 4
    /\ retry.sleeps = 3
    /\ call.ret.Code = "HTTPRequestFailed"

\* C26: whenever a call through the transport returns an error that
\* IsRetryableError classifies as retryable, the call has made exactly its
\* effective retry count plus one attempts; while attempts remain a retryable
\* error of an attempt leads to a sleep and another attempt, not to a return.
C26_RetryableOnlyAfterExhaustion ==
    /\ (call.pc = "returned" /\ IsRetryableError(call.ret))
          => (retry.fn = "doRequest" /\ retry.calls = call.retries + 1
              /\ retry.sleeps = call.retries)
    /\ (retry.fn = "doRequest" /\ retry.calls > 0 /\ retry.calls <= call.retries
          /\ IsRetryableError(retry.err))
          => (call.pc = "running" /\ retry.pc \in {"sleep", "attempt"})

C26_Witness ==
    /\ call.pc = "returned"
    /\ call.retries = 2
    /\ ~call.same
    /\ call.net = Response(500, BodyObject("InvalidParameter", "x", "r1"), FALSE)
    /\ IsRetryableError(call.ret)
    /\ retry.calls = 3

\* ---------------------------------------------------------------------
\* Scoped clients: the request envelope of collection and index clients.
\* A struct is a set of fields; a field of an embedded struct lies one
\* level deeper than the fields of the struct that embeds it.
\* ---------------------------------------------------------------------
MaxSends == 3

Field(key, value, omitempty) ==
    [key |-> key, depth |-> 1, value |-> value, omitempty |-> omitempty]

\* A plausible slip: the struct is a named field, not an embedded one, and
\* is written as one nested object under its own key.
Embed_named(name, fields) ==
    {[key |-> name, depth |-> 1, value |-> "{}", omitempty |-> FALSE]}

\* Anonymous struct field: its fields are promoted, one level deeper.
Embed(name, fields) ==
    {[f EXCEPT !.depth = @ + 1] : f \in fields}

CollectionLocator(base) ==
    { Field("collection_name", base.CollectionName, FALSE),
      Field("project_name", base.ProjectName, TRUE),
      Field("resource_id", base.ResourceID, FALSE) }

IndexLocator(base) ==
    Embed("CollectionLocator", CollectionLocator(base.CollectionLocator))
      \cup { Field("index_name", base.IndexName, FALSE) }

DeleteDataRequest(ids, delAll) ==
    { Field("ids", ids, FALSE), Field("del_all", delAll, TRUE) }

FetchDataInCollectionRequest(ids) ==
    { Field("ids", ids, FALSE) }

FetchDataInIndexRequest(ids, partition) ==
    { Field("ids", ids, FALSE), Field("partition", partition, TRUE) }

SearchByRandomRequest(limit, partition) ==
    Embed("SearchBase",
          { Field("limit", limit, TRUE) }
            \cup Embed("RecallBase", { Field("partition", partition, TRUE) }))

\* encoding/json on a struct: of the fields with one key the shallowest is
\* written, none when two share the least depth; an omitempty field with the
\* zero value is left out.
Dominant(fields, k) ==
    LET same == {f \in fields : f.key = k}
    IN  {f \in same : \A g \in same : f.depth <= g.depth}

MarshalStruct(fields) ==
    LET written == {k \in {f.key : f \in fields} :
                      /\ Cardinality(Dominant(fields, k)) = 1
                      /\ \A f \in Dominant(fields, k) :
                            ~(f.omitempty /\ f.value = "")}
    IN  [k \in written |-> (CHOOSE f \in Dominant(fields, k) : TRUE).value]

CollectionBases ==
    [CollectionName : {"", "c"}, ProjectName : {"", "p"}, ResourceID : {"", "r"}]

ScopedClients ==
    {[kind |-> "collection", base |-> b] : b \in CollectionBases}
      \cup {[kind |-> "index",
             base |-> [CollectionLocator |-> b, IndexName |-> "i"]] :
                b \in CollectionBases}

\* The endpoints of a scoped client, each with the payloads tried.
ScopedRequests(kind) ==
    IF kind = "collection"
    THEN {[path |-> "/api/vikingdb/data/delete",
           payload |-> DeleteDataRequest("[1]", d)] : d \in {"", "true"}}
           \cup {[path |-> "/api/vikingdb/data/fetch_in_collection",
                  payload |-> FetchDataInCollectionRequest("[1]")]}
    ELSE {[path |-> "/api/vikingdb/data/fetch_in_index",
           payload |-> FetchDataInIndexRequest("[1]", p)] : p \in {"", "p1"}}
           \cup {[path |-> "/api/vikingdb/data/search/random",
                  payload |-> SearchByRandomRequest(l, p)] :
                     l \in {"", "5"}, p \in {"", "p1"}}

\* The anonymous struct a scoped method hands to doRequest.
Envelope(c, path, payload) ==
    IF c.kind = "collection"
    THEN Embed("CollectionLocator", CollectionLocator(c.base))
           \cup Embed("Request", payload)
    ELSE Embed("IndexLocator", IndexLocator(c.base))
           \cup Embed("Request", payload)

NoScopedCall ==
    [pc |-> "idle", path |-> "", payload |-> {}, body |-> EmptyMap, sent |-> <<>>]

ScopeInit ==
    /\ client \in ScopedClients
    /\ call = NoScopedCall
    /\ retry = RetryIdle

\* A scoped method: the envelope is serialised once, before the retry loop.
ScopedCall(r) ==
    /\ call.pc = "idle"
    /\ call' = [pc |-> "sending", path |-> r.path, payload |-> r.payload,
                body |-> MarshalStruct(Envelope(client, r.path, r.payload)),
                sent |-> <<>>]
    /\ UNCHANGED <<client, retry>>

\* One attempt: buildRequest reads the serialised bytes again.
SendAttempt(again) ==
    /\ call.pc = "sending"
    /\ Len(call.sent) < MaxSends
    /\ call' = [call EXCEPT
                  !.sent = Append(@, call.body),
                  !.pc = IF again /\ Len(call.sent) + 1 < MaxSends
                         THEN "sending" ELSE "returned"]
    /\ UNCHANGED <<client, retry>>

FinishCall ==
    /\ call.pc = "returned"
    /\ call' = NoScopedCall
    /\ UNCHANGED <<client, retry>>

ScopeNext ==
    \/ \E r \in ScopedRequests(client.kind) : ScopedCall(r)
    \/ \E again \in BOOLEAN : SendAttempt(again)
    \/ FinishCall

ScopeSpec == ScopeInit /\ [][ScopeNext]_vars

CollectionBaseOf(c) ==
    IF c.kind = "collection" THEN c.base ELSE c.base.CollectionLocator

HasKey(b, k, v) == k \in DOMAIN b /\ b[k] = v

\* The payload's own keys lie beside the locator's, with the payload's values.
PayloadBeside(b) ==
    \A f \in call.payload :
        IF f.omitempty /\ f.value = ""
        THEN f.key \notin DOMAIN b
        ELSE HasKey(b, f.key, f.value)

\* C27 as stated: every body sent by a collection or index client has the
\* keys collection_name, project_name and resource_id (and index_name for an
\* index client) at the top level with the values of the client's locator.
C27_AllLocatorKeys ==
    \A i \in 1..Len(call.sent) :
        LET b == call.sent[i]  base == CollectionBaseOf(client)
        IN  /\ HasKey(b, "collection_name", base.CollectionName)
            /\ HasKey(b, "project_name", base.ProjectName)
            /\ HasKey(b, "resource_id", base.ResourceID)
            /\ client.kind = "index" => HasKey(b, "index_name", client.base.IndexName)

\* C27, amended: every body sent by a collection or index client, on every
\* attempt, has collection_name and resource_id (and index_name for an index
\* client) as top-level keys with the values of the client's locator, and
\* project_name with the locator's value when that value is not empty and no
\* project_name key when it is empty; the payload's keys lie beside them in
\* the same object, and no step changes the scoped client or its locator.
C27_LocatorCarried ==
    /\ [](\A i \in 1..Len(call.sent) :
            LET b == call.sent[i]  base == CollectionBaseOf(client)
            IN  /\ HasKey(b, "collection_name", base.CollectionName)
                /\ HasKey(b, "resource_id", base.ResourceID)
                /\ IF base.ProjectName = ""
                   THEN "project_name" \notin DOMAIN b
                   ELSE HasKey(b, "project_name", base.ProjectName)
                /\ client.kind = "index"
                     => HasKey(b, "index_name", client.base.IndexName)
                /\ PayloadBeside(b))
    /\ [][client' = client]_vars

C27_Witness ==
    /\ client.kind = "index"
    /\ client.base.CollectionLocator = [CollectionName |-> "c", ProjectName |-> "p", ResourceID |-> "r"]
    /\ call.path = "/api/vikingdb/data/search/random"
    /\ Len(call.sent) = 2
    /\ call.sent[2] = call.sent[1]
    /\ DOMAIN call.sent[2] = {"collection_name", "project_name", "resource_id", "index_name", "limit"}

\* C28: when serialising the request fails, the call returns an
\* InvalidParameter error with status 400 that wraps the cause; no HTTP
\* request is built, signed or sent and Retry is not entered: no attempt and
\* no sleep.
C28_SerializeFailsFast ==
    (call.pc # "none" /\ call.request = "unmarshalable")
       => /\ call.pc = "returned"
          /\ call.ret.type = "sdk"
          /\ call.ret.Code = ErrCodeInvalidParameter
          /\ call.ret.StatusCode = 400
          /\ call.ret.Err = "json: unsupported value"
          /\ ~IsRetryableError(call.ret)
          /\ call.sent = 0
          /\ call.headers = EmptyMap
          /\ retry.pc = "idle"
          /\ retry.calls = 0
          /\ retry.sleeps = 0

C28_Witness ==
    /\ call.pc = "returned"
    /\ call.request = "unmarshalable"
    /\ call.retries = 3
    /\ call.ret.Message = "failed to marshal request"
    /\ retry.calls = 0

\* ---------------------------------------------------------------------
\* The access-key authenticator on its own: calls through a transport whose
\* iamAuth holds any pair of keys, the empty ones included. newTransport
\* never stores such a pair; a transport literal can.
\* ---------------------------------------------------------------------
SignClients ==
    {LET c == ClientOf(AuthIAM("ak", "sk"),
                       <<WithEndpoint("https://host"), WithMaxRetries(n)>>)
     IN  [c EXCEPT !.transport.auth = iamAuth(a, k, c.transport.config.Region)] :
        a \in {"", "ak"}, k \in {"", "sk"}, n \in 0 .. MaxCfgRetries}

SignShapes ==
    {CallShape("POST", "value", ZeroTarget, << >>),
     CallShape("POST", "nil", ZeroTarget, <<WithRequestMaxRetries(2)>>),
     CallShape("POST", "value", ZeroTarget,
               <<WithRequestHeader("Authorization", "caller")>>),
     CallShape("POST", "value", ZeroTarget,
               <<WithRequestHeaders(("X-A" :> "1") @@ ("X-B" :> "2")),
                 WithRequestQueryParams("a" :> "1")>>)}

SignNets ==
    {NetError("connection refused"),
     Response(200, BodyObject("", "", "r1"), FALSE),
     Response(500, BodyEmpty, FALSE)}

SignInit ==
    /\ client \in SignClients
    /\ call = NoCall
    /\ retry = RetryIdle

SignNext ==
    \/ \E shape \in SignShapes : DoRequest(shape)
    \/ \E net \in SignNets : AttemptHTTP(net)
    \/ \E jitter \in JitterChoices(retry.delay) : Sleep(jitter)
    \/ CallReturn

SignSpec == SignInit /\ [][SignNext]_vars

EmptyKeys == client.transport.auth.ak = "" \/ client.transport.auth.sk = ""

\* The headers a request has when the authenticator gets it.
UnsignedHeaders ==
    buildRequest([client.transport EXCEPT !.auth = noAuth],
                 call.method, call.path, call.body, call.opts).headers

\* C29: with an empty access key or secret key iamAuth.apply returns an
\* InvalidParameter error and leaves the request unsigned; the error is not
\* retryable, so a call whose attempt gets as far as the authenticator
\* returns it after one attempt, without a sleep and without a request
\* handed to the HTTP client.
C29_EmptyKeysRejected ==
    (EmptyKeys /\ call.pc # "none")
       => /\ LET a == AuthApply(client.transport.auth, UnsignedHeaders)
             IN  /\ a.err = NewInvalidParameterError(
                                "access key and secret key cannot be empty")
                 /\ a.headers = UnsignedHeaders
          /\ ~IsRetryableError(NewInvalidParameterError(
                                "access key and secret key cannot be empty"))
          /\ call.sent = 0
          /\ retry.sleeps = 0
          /\ retry.calls <= 1
          /\ (retry.calls = 1 /\ ~NilReaderPanics(call.body))
               => /\ call.pc = "returned"
                  /\ call.ret = NewInvalidParameterError(
                                   "access key and secret key cannot be empty")
                  /\ call.headers = EmptyMap

C29_Witness ==
    /\ client.transport.auth.ak = "ak"
    /\ client.transport.auth.sk = ""
    /\ call.pc = "returned"
    /\ call.retries = 2
    /\ retry.calls = 1
    /\ call.sent = 0
    /\ call.ret.Code = ErrCodeInvalidParameter

\* ---------------------------------------------------------------------
\* Retry called on its own, with fairness: an invocation of fn returns and
\* time.Sleep ends.
\* ---------------------------------------------------------------------
RetryNext ==
    \/ \E m \in -2 .. MaxDirectRetries, k \in ShouldRetryKinds : CallRetry(m, k)
    \/ \E err \in FnResults : AttemptDirect(err)
    \/ \E jitter \in JitterChoices(retry.delay) : Sleep(jitter)
    \/ RetryReturn

RetryFairSpec ==
    /\ Init
    /\ [][RetryNext]_vars
    /\ WF_vars(\E err \in FnResults : AttemptDirect(err))
    /\ WF_vars(\E jitter \in JitterChoices(retry.delay) : Sleep(jitter))

\* max(maxRetries, 0) + 1 for the argument Retry was called with.
MostAttempts == (IF retry.arg > 0 THEN retry.arg ELSE 0) + 1

\* C30: whatever maxRetries is and whatever fn returns, Retry invokes fn at
\* least once and at most max(maxRetries, 0) + 1 times and then returns; it
\* returns nil exactly when an attempt succeeded, and fn is not invoked again
\* once it has succeeded.
C30_RetryTerminates ==
    /\ [](retry.calls <= MostAttempts)
    /\ [](retry.pc = "done"
            => /\ retry.calls >= 1
               /\ (retry.ret.type = "nil") <=> (retry.err.type = "nil"))
    /\ [][(retry.pc # "idle" /\ retry.calls >= 1 /\ retry.err.type = "nil")
             => ~FnInvoked]_vars
    /\ (retry.pc \in {"attempt", "sleep"}) ~> (retry.pc = "done")

C30_Witness ==
    /\ retry.pc = "done"
    /\ retry.fn = "direct"
    /\ retry.arg = MaxDirectRetries
    /\ retry.shouldRetry = "always"
    /\ retry.calls = 3
    /\ retry.lastErr.type = "raw"
    /\ retry.ret.type = "nil"

\* C31 as stated: once the context of a call is cancelled the retry loop
\* ends. Read in the code's favour: after an attempt of the call has ended
\* with the error of its cancelled context, the call starts no backoff sleep
\* and hands no further request to the HTTP client.
C31_CancellationEndsRetry ==
    [][\A i \in Calls :
          (call[i].ctx # "" /\ retry[i].calls >= 1
             /\ call[i].net = NetError(call[i].ctx))
             => /\ ~(call[i].pc = "running" /\ call'[i].pc = "inflight")
                /\ retry'[i].sleeps = retry[i].sleeps]_vars

\* ---------------------------------------------------------------------
\* One call step by step: the statements of the closure doRequest hands to
\* Retry (lines 328-341) and of buildRequest, one action each.
\* ---------------------------------------------------------------------
\* A request object: its headers, its body bytes, and how often an
\* authenticator was applied to it.
NoReq == [headers |-> EmptyMap, body |-> "", signs |-> 0, made |-> FALSE]

\* A plausible slip: a retry takes the request of the attempt before, signed
\* already, in place of building one.
FreshRequest_reused(previous, t, c) ==
    IF previous.made THEN previous
    ELSE [headers |-> buildRequest([t EXCEPT !.auth = noAuth], c.method,
                                   c.path, c.body, c.opts).headers,
          body |-> c.body, signs |-> 0, made |-> TRUE]

\* buildRequest up to its call of c.auth.apply (lines 344-377): a new
\* request on every attempt.
FreshRequest(previous, t, c) ==
    [headers |-> buildRequest([t EXCEPT !.auth = noAuth], c.method,
                              c.path, c.body, c.opts).headers,
     body |-> c.body, signs |-> 0, made |-> TRUE]

StepOrder == <<"build", "apply", "send", "decode">>

NoSteps ==
    [pc |-> "none", method |-> "", path |-> "", body |-> "",
     opts |-> defaultRequestOptions, retries |-> 0, response |-> NilTarget,
     serialized |-> 0, req |-> NoReq, log |-> << >>, sent |-> << >>,
     net |-> NoNet, ret |-> NilErr]

StepInit ==
    /\ client \in BuildClients
    /\ call = NoSteps
    /\ retry = RetryIdle

\* An attempt ended with err: Retry decides what follows.
AttemptEnds(c, err) ==
    LET r == RetryStep(retry, err)
    IN  /\ retry' = r
        /\ call' = [c EXCEPT !.pc = IF r.pc = "done" THEN "returned" ELSE "backoff",
                             !.ret = r.ret]

\* doRequest up to its call of Retry (lines 301-328).
StepStart(shape) ==
    /\ call.pc = "none"
    /\ LET requestOpts == ApplyRequestOptions(defaultRequestOptions, shape.opts)
           retries == EffectiveRetries(requestOpts.MaxRetries,
                                       client.transport.config.MaxRetries)
           ser == SerializeRequest(shape.request)
           c == [NoSteps EXCEPT !.method = shape.method,
                                !.path = "/api/vikingdb/data/upsert",
                                !.body = ser.body, !.opts = requestOpts,
                                !.retries = retries,
                                !.response = shape.response,
                                !.serialized = 1]
       IN  IF ser.err.type # "nil"
           THEN /\ call' = [c EXCEPT !.pc = "returned", !.ret = ser.err]
                /\ UNCHANGED retry
           ELSE /\ call' = [c EXCEPT !.pc = "build"]
                /\ retry' = RetryEntry(retries, "IsRetryableError", "doRequest")
    /\ UNCHANGED client

\* buildRequest, lines 344-377: it returns the error of
\* NewRequestWithContext, or panics there on an empty body, or goes on to
\* the authenticator with the request.
StepBuild ==
    /\ call.pc = "build"
    /\ LET e == NewRequestError(call.method)
           c == [call EXCEPT !.log = <<"build">>,
                             !.req = FreshRequest(call.req, client.transport, call)]
       IN  IF e.type # "nil"
           THEN AttemptEnds([c EXCEPT !.req = NoReq], e)
           ELSE IF NilReaderPanics(call.body)
           THEN /\ call' = [c EXCEPT !.req = NoReq, !.pc = "panicked"]
                /\ retry' = RetryPanicked(retry)
           ELSE call' = [c EXCEPT !.pc = "apply"] /\ UNCHANGED retry
    /\ UNCHANGED client

\* buildRequest, lines 379-383: c.auth.apply(req).
StepApply ==
    /\ call.pc = "apply"
    /\ LET a == AuthApply(client.transport.auth, call.req.headers)
           c == [call EXCEPT !.log = Append(@, "apply"),
                             !.req.signs = @ + 1,
                             !.req.headers = a.headers]
       IN  IF a.err.type # "nil"
           THEN AttemptEnds(c, a.err)
           ELSE call' = [c EXCEPT !.pc = "send"] /\ UNCHANGED retry
    /\ UNCHANGED client

\* DoHTTPRequest (line 334).
StepSend(net) ==
    /\ call.pc = "send"
    /\ LET d == DoHTTPRequest(net)
           c == [call EXCEPT !.log = Append(@, "send"),
                             !.sent = Append(@, call.req),
                             !.net = net]
       IN  IF d.type # "nil"
           THEN AttemptEnds(c, d)
           ELSE call' = [c EXCEPT !.pc = "decode"] /\ UNCHANGED retry
    /\ UNCHANGED client

\* ParseResponse (line 340).
StepDecode ==
    /\ call.pc = "decode"
    /\ LET p == ParseResponse(call.net, call.response)
       IN  AttemptEnds([call EXCEPT !.log = Append(@, "decode"),
                                    !.response = p.result], p.err)
    /\ UNCHANGED client

\* The backoff sleep; the next iteration calls the closure again.
StepSleep(jitter) ==
    /\ call.pc = "backoff"
    /\ retry.pc = "sleep"
    /\ retry' = RetrySlept(retry, jitter)
    /\ call' = [call EXCEPT !.pc = "build", !.log = << >>]
    /\ UNCHANGED client

StepReturn ==
    /\ call.pc = "returned"
    /\ call' = NoSteps
    /\ retry' = RetryIdle
    /\ UNCHANGED client

StepNext ==
    \/ \E shape \in SignShapes : StepStart(shape)
    \/ StepBuild
    \/ StepApply
    \/ \E net \in SignNets : StepSend(net)
    \/ StepDecode
    \/ \E jitter \in JitterChoices(retry.delay) : StepSleep(jitter)
    \/ StepReturn

StepSpec == StepInit /\ [][StepNext]_vars

\* C32: in every attempt the steps come in the order build, apply
\* authenticator, send, decode; a request that is sent has had the
\* authenticator applied exactly once, every attempt building its own; the
\* body is serialised once, before the first attempt, and every request of
\* the call carries those same bytes.
C32_StepOrder ==
    /\ call.log = SubSeq(StepOrder, 1, Len(call.log))
    /\ call.pc # "none" => call.serialized = 1
    /\ Len(call.sent) <= retry.calls + 1
    /\ \A i \in 1 .. Len(call.sent) :
          /\ call.sent[i].signs = 1
          /\ call.sent[i].body = call.body
    /\ ("send" \in {call.log[i] : i \in 1 .. Len(call.log)})
          => call.req.signs = 1

C32_Witness ==
    /\ call.pc = "returned"
    /\ client.transport.auth.kind = "iamAuth"
    /\ Len(call.sent) = 3
    /\ call.sent[1] = call.sent[3]
    /\ call.body # ""
    /\ call.log = StepOrder
    /\ call.ret.type = "nil"

\* ---------------------------------------------------------------------
\* Retry in several goroutines at once: retry holds one record of Retry's
\* locals per goroutine. time.Sleep blocks the goroutine that calls it.
\* ---------------------------------------------------------------------
GoInit ==
    /\ client = NoClient
    /\ call = NoCall
    /\ retry = [i \in Calls |-> RetryIdle]

GoRetry(i, maxRetries) ==
    /\ retry[i].pc = "idle"
    /\ retry' = [retry EXCEPT ![i] = RetryEntry(maxRetries, "always", "direct")]
    /\ UNCHANGED <<client, call>>

GoAttempt(i, err) ==
    /\ retry[i].pc = "attempt"
    /\ retry' = [retry EXCEPT ![i] = RetryStep(@, err)]
    /\ UNCHANGED <<client, call>>

GoSleep(i, jitter) ==
    /\ retry[i].pc = "sleep"
    /\ retry' = [retry EXCEPT ![i] = RetrySlept(@, jitter)]
    /\ UNCHANGED <<client, call>>

GoReturn(i) ==
    /\ retry[i].pc = "done"
    /\ retry' = [retry EXCEPT ![i] = RetryIdle]
    /\ UNCHANGED <<client, call>>

GoNext ==
    \/ \E i \in Calls, m \in {1, MaxDirectRetries} : GoRetry(i, m)
    \/ \E i \in Calls, err \in {NilErr, RawErr("boom")} : GoAttempt(i, err)
    \/ \E i \in Calls : \E jitter \in JitterChoices(retry[i].delay) : GoSleep(i, jitter)
    \/ \E i \in Calls : GoReturn(i)

GoSpec == GoInit /\ [][GoNext]_vars

RECURSIVE Doubled(_, _)
\* d doubled n times, held at the ceiling.
Doubled(d, n) ==
    IF n = 0 THEN d
    ELSE IF Doubled(d, n - 1) * 2 > 10000 THEN 10000 ELSE Doubled(d, n - 1) * 2

\* C33: Retry sleeps once before every attempt but the first, so a Retry that
\* has made n attempts has slept n - 1 times; its delay is 100ms at the start
\* and twice the delay before after every sleep, held at 10s: it never falls
\* and never passes 10s, and no sleep is longer than 10s; a sleep of one
\* goroutine changes nothing of another and does not keep it from its attempt.
C33_BackoffSchedule ==
    /\ [](\A i \in Calls :
            LET r == retry[i] IN
            /\ r.pc = "attempt" => r.sleeps = r.calls
            /\ r.pc \in {"sleep", "done"} => r.sleeps = r.calls - 1
            /\ r.delay = Doubled(100, r.sleeps)
            /\ r.delay <= 10000
            /\ r.sleepFor <= 10000
            /\ r.sleeps >= 1 /\ r.pc = "attempt"
                 => r.sleepFor >= Doubled(100, r.sleeps - 1)
            /\ \A j \in Calls \ {i} :
                  (r.pc = "sleep" /\ retry[j].pc = "attempt")
                     => ENABLED GoAttempt(j, NilErr))
    /\ [][\A i \in Calls :
             /\ (retry[i].pc # "done" /\ retry[i].pc # "idle")
                   => retry'[i].delay >= retry[i].delay
             /\ retry'[i].sleeps > retry[i].sleeps
                   => /\ retry[i].calls >= 1
                      /\ retry'[i].sleeps = retry[i].sleeps + 1
                      /\ \A j \in Calls \ {i} : retry'[j] = retry[j]]_vars

C33_Witness ==
    /\ retry[1].pc = "attempt"
    /\ retry[1].sleeps = 8
    /\ retry[1].calls = 8
    /\ retry[1].delay = 10000
    /\ retry[1].sleepFor = 10000
    /\ retry[2].pc = "sleep"
    /\ retry[2].delay = 100

\* C34 as stated: the error the decoder returns for a response with a status
\* outside [200, 300) has a non-empty Code, also when the envelope of the
\* response has an empty code and a non-empty message.
C34_NonEmptyCode ==
    DecodedNonSuccess
        => /\ retry.err.type = "sdk"
           /\ retry.err.Code # ""

\* C35: a per-call retry count of 0 or below is ignored: the call runs with
\* the retry count of its transport, and ends with a retryable error only
\* after that count plus one attempts. So on a transport whose retry count is
\* positive no per-call option brings the call down to a single attempt.
C35_NonPositiveOverrideIgnored ==
    LET m == client.transport.config.MaxRetries IN
    /\ (call.pc # "none" /\ call.opts.MaxRetries <= 0)
          => /\ call.retries = m
             /\ retry.fn = "doRequest" => retry.maxRetries = m
             /\ (call.pc = "returned" /\ IsRetryableError(call.ret))
                   => (retry.calls = m + 1 /\ retry.sleeps = m)
    /\ (call.pc # "none" /\ m > 0)
          => /\ call.retries >= 1
             /\ (call.pc = "returned" /\ IsRetryableError(call.ret))
                   => retry.calls >= 2

C35_Witness ==
    /\ client.transport.config.MaxRetries = 2
    /\ call.opts.MaxRetries = -1
    /\ call.pc = "returned"
    /\ retry.calls = 3
    /\ call.sent = 3
    /\ call.ret.StatusCode = 429

\* The latest attempt got a 2xx response whose body is not empty and does not
\* decode into the target, which is not nil.
UndecodableSuccess ==
    /\ Decoded
    /\ call.net.StatusCode >= 200
    /\ call.net.StatusCode < 300
    /\ call.net.body.kind \in {"notjson", "badtype"}
    /\ ~call.response.nil

\* C36: a 2xx response with a non-empty body that is not valid JSON for the
\* target gives an SDK error with code Unknown and the 2xx status as its
\* StatusCode; the error is not retryable, so the call returns it from that
\* attempt: after exactly one attempt when the first response is such a one,
\* whatever the retry count.
C36_UndecodableSuccess ==
    UndecodableSuccess
        => /\ retry.err.type = "sdk"
           /\ retry.err.Code = "Unknown"
           /\ retry.err.StatusCode = call.net.StatusCode
           /\ retry.err.Message = "failed to unmarshal response body"
           /\ ~IsRetryableError(retry.err)
           /\ call.pc = "returned"
           /\ call.ret = retry.err
           /\ retry.sleeps = retry.calls - 1
           /\ call.same => (retry.calls = 1 /\ call.sent = 1)

C36_Witness ==
    /\ UndecodableSuccess
    /\ call.net.StatusCode = 299
    /\ call.net.body.kind = "badtype"
    /\ call.retries = 3
    /\ retry.calls = 1
    /\ call.pc = "returned"

\* C37: on a client with the bearer API key every request built carries
\* Authorization: Bearer <the configured key>, also when a per-call header
\* names Authorization with another value: the authenticator writes the
\* header after the per-call headers are set.
C37_BearerOverridesCaller ==
    (Built /\ client.auth.kind = "authKindAPIKey")
        => /\ "Authorization" \in DOMAIN call.req.headers
           /\ call.req.headers["Authorization"] = "Bearer " \o client.auth.apiKey
           /\ \A k \in CallerKeys("Authorization") :
                 call.req.headers["Authorization"] # call.opts.Headers[k]

C37_Witness ==
    /\ Built
    /\ client.auth.kind = "authKindAPIKey"
    /\ call.optlist = <<WithRequestHeader("Authorization", "caller"),
                        WithRequestHeader("X-Custom", "c")>>
    /\ call.opts.Headers["Authorization"] = "caller"
    /\ call.req.headers["Authorization"] = "Bearer token"
    /\ call.req.headers["X-Custom"] = "c"

\* C38: an attempt that ends in a network failure or in a response with a
\* status outside [200, 300) leaves the response target as it was, so a call
\* that returns from such an attempt hands back the target as it was before
\* the call, zero-valued for a scoped-client operation, with the error.
C38_TargetUntouchedOnFailure ==
    /\ [][(retry.fn = "doRequest" /\ FnInvoked
             /\ (\/ call'.sent = call.sent
                 \/ call'.net.kind = "error"
                 \/ call'.net.StatusCode < 200
                 \/ call'.net.StatusCode >= 300))
            => call'.response = call.response]_vars
    /\ []((call.pc = "returned" /\ call.sent > 0
             /\ (\/ call.net.kind = "error"
                 \/ call.net.StatusCode < 200
                 \/ call.net.StatusCode >= 300))
            => /\ call.ret.type # "nil"
               /\ call.response = IF call.response.nil THEN NilTarget
                                  ELSE ZeroTarget)

C38_Witness ==
    /\ call.pc = "returned"
    /\ call.sent = 2
    /\ ~call.same
    /\ call.net = Response(400, BodyObject("InvalidParameter", "x", "r1"), FALSE)
    /\ call.response = ZeroTarget
    /\ call.ret.Code = "InvalidParameter"
    /\ call.ret.RequestID = "r1"

\* The messages of the errors of a call that wrap a cause: serialisation,
\* request construction, network, body read and JSON decoding.
CauseMessages ==
    {"failed to marshal request", "failed to create request",
     "failed to execute http request", "failed to read response body",
     "failed to unmarshal response body"}

\* C39: the error for a response with a status outside [200, 300), from the
\* envelope as well as from the generic fallback, wraps no cause; an error of
\* a call wraps a cause only when it comes from serialisation, request
\* construction, the network, reading the body or decoding JSON.
C39_NoCauseOnNonSuccess ==
    /\ DecodedNonSuccess
          => /\ retry.err.type = "sdk"
             /\ retry.err.Err = "nil"
    /\ (retry.fn = "doRequest" /\ retry.err.Err # "nil")
          => retry.err.Message \in CauseMessages
    /\ (call.ret.Err # "nil")
          => /\ call.ret.Message \in CauseMessages
             /\ ~(call.sent > 0 /\ DecodedNonSuccess)

C39_Witness ==
    /\ DecodedNonSuccess
    /\ call.net.StatusCode = 500
    /\ call.net.body.kind = "notjson"
    /\ call.pc = "returned"
    /\ call.ret.Code = "Unknown"
    /\ call.ret.Err = "nil"
    /\ retry.calls = 2

\* ---------------------------------------------------------------------
\* Calls running at once through one client. Under SharedSpec client is a
\* client New has built, with the kinds of the scoped clients made of it
\* so far (each holds the pointer to the client's transport), call[i] is
\* the call goroutine i is in and retry[i] the Retry of that call.
\* ---------------------------------------------------------------------
SharedClients ==
    {ClientOf(AuthAPIKey("token"),
              <<WithEndpoint("https://host"), WithMaxRetries(1)>>) ,
     ClientOf(AuthIAM("ak", "sk"),
              <<WithEndpoint("https://host"), WithRegion("cn-shanghai"),
                WithUserAgent("ua"), WithMaxRetries(0)>>)}

\* The scoped clients and the path of the operation tried on each.
ScopedKinds == {"collection", "index", "embedding", "rerank"}

ScopedPath(kind) ==
    CASE kind = "collection" -> "/api/vikingdb/data/upsert"
      [] kind = "index" -> "/api/vikingdb/data/search/vector"
      [] kind = "embedding" -> "/api/vikingdb/embedding"
      [] OTHER -> "/api/vikingdb/rerank"

\* The per-call options of the calls.
SharedOptlists ==
    {<< >>,
     <<WithRequestID("rid"), WithRequestMaxRetries(1),
       WithRequestQueryParam("q", "1")>>,
     <<WithRequestHeaders(("X-A" :> "1") @@ ("X-B" :> "2")),
       WithRequestHeader("Authorization", "caller")>>}

\* What the HTTP client does with a request.
SharedNets ==
    {NetError("connection refused"),
     Response(200, BodyObject("", "", "r1"), FALSE)}

\* via is the kind of the scoped client the call goes through, req the
\* request its latest attempt built, sent the number of requests handed to
\* the HTTP client, net what the HTTP client gave back for the latest one.
\* A call is "inflight" while its request is with the HTTP client and
\* "reading" once the response is there and its body is not yet read.
NoSharedCall ==
    [pc |-> "none", via |-> "", method |-> "", path |-> "", body |-> "",
     optlist |-> << >>, opts |-> defaultRequestOptions, retries |-> 0,
     response |-> NilTarget, req |-> NoRequest, sent |-> 0, net |-> NoNet,
     ret |-> NilErr]

SharedInit ==
    /\ \E c \in SharedClients : client = [scoped |-> {}] @@ c
    /\ call = [i \in Calls |-> NoSharedCall]
    /\ retry = [i \in Calls |-> RetryIdle]

\* client.Collection(base), client.Index(base), client.Embedding(),
\* client.Rerank() (lines 262-300): a new scoped client that points to the
\* transport of the client.
MakeScoped(kind) ==
    /\ client.state = "ok"
    /\ kind \notin client.scoped
    /\ client' = [client EXCEPT !.scoped = @ \cup {kind}]
    /\ UNCHANGED <<call, retry>>

\* The RequestOptions value another goroutine has made last: what the
\* call of goroutine i would start from if the values were shared.
OthersOptions(i) == call[CHOOSE j \in Calls : j # i].opts

\* Goroutine i calls an operation of a scoped client: doRequest up to its
\* call of Retry (lines 301-328).
SharedCall(i, kind, optlist) ==
    /\ call[i].pc = "none"
    /\ kind \in client.scoped
    /\ LET requestOpts == ApplyRequestOptions(NewRequestOptions(OthersOptions(i)),
                                              optlist)
           retries == EffectiveRetries(requestOpts.MaxRetries,
                                       client.transport.config.MaxRetries)
           ser == SerializeRequest("value")
       IN  /\ call' = [call EXCEPT ![i] =
                          [NoSharedCall EXCEPT !.pc = "running", !.via = kind,
                                               !.method = "POST",
                                               !.path = ScopedPath(kind),
                                               !.body = ser.body,
                                               !.optlist = optlist,
                                               !.opts = requestOpts,
                                               !.retries = retries,
                                               !.response = ZeroTarget]]
           /\ retry' = [retry EXCEPT ![i] =
                           RetryEntry(retries, "IsRetryableError", "doRequest")]
    /\ UNCHANGED client

\* Goroutine i starts an attempt (lines 329-334): it builds and signs the
\* request and hands it to the HTTP client; when buildRequest fails the
\* attempt ends there with its error and nothing is sent.
SharedSend(i) ==
    /\ call[i].pc = "running"
    /\ retry[i].pc = "attempt"
    /\ LET req == buildRequest(client.transport, call[i].method, call[i].path,
                               call[i].body, call[i].opts)
           r == IF req.panics THEN RetryPanicked(retry[i])
                ELSE RetryStep(retry[i], req.err)
       IN  IF req.panics \/ req.err.type # "nil"
           THEN /\ retry' = [retry EXCEPT ![i] = r]
                /\ call' = [call EXCEPT ![i] =
                               [@ EXCEPT !.req = req,
                                         !.pc = CASE r.pc = "done" -> "returned"
                                                  [] r.pc = "panicked" -> "panicked"
                                                  [] OTHER -> @,
                                         !.ret = r.ret]]
           ELSE /\ call' = [call EXCEPT ![i] =
                               [@ EXCEPT !.req = req, !.sent = @ + 1,
                                         !.net = NoNet, !.pc = "inflight"]]
                /\ UNCHANGED retry
    /\ UNCHANGED client

\* client.Do of goroutine i returns (line 334, DoHTTPRequest, part_007:15-21):
\* with an error, and the attempt ends there; else with the response, its
\* body still to be read.
SharedRespond(i, net) ==
    /\ call[i].pc = "inflight"
    /\ LET err == DoHTTPRequest(net)
           r == RetryStep(retry[i], err)
       IN  IF err.type # "nil"
           THEN /\ retry' = [retry EXCEPT ![i] = r]
                /\ call' = [call EXCEPT ![i] =
                               [@ EXCEPT !.net = net,
                                         !.pc = IF r.pc = "done" THEN "returned"
                                                ELSE "running",
                                         !.ret = r.ret]]
           ELSE /\ call' = [call EXCEPT ![i] = [@ EXCEPT !.net = net,
                                                         !.pc = "reading"]]
                /\ UNCHANGED retry
    /\ UNCHANGED client

\* The body of the response of goroutine i is read and decoded (line 340,
\* ParseResponse), the attempt returns and Retry decides.
SharedReadBody(i) ==
    /\ call[i].pc = "reading"
    /\ LET p == ParseResponse(call[i].net, call[i].response)
           r == RetryStep(retry[i], p.err)
       IN  /\ retry' = [retry EXCEPT ![i] = r]
           /\ call' = [call EXCEPT ![i] =
                          [@ EXCEPT !.response = p.result,
                                    !.pc = IF r.pc = "done" THEN "returned"
                                           ELSE "running",
                                    !.ret = r.ret]]
    /\ UNCHANGED client

\* The backoff sleep of goroutine i.
SharedSleep(i, jitter) ==
    /\ call[i].pc = "running"
    /\ retry[i].pc = "sleep"
    /\ retry' = [retry EXCEPT ![i] = RetrySlept(@, jitter)]
    /\ UNCHANGED <<client, call>>

\* The caller in goroutine i takes the result; the RequestOptions of the
\* call stay what the call made of them.
SharedReturn(i) ==
    /\ call[i].pc = "returned"
    /\ call' = [call EXCEPT ![i] = [NoSharedCall EXCEPT !.opts = call[i].opts]]
    /\ retry' = [retry EXCEPT ![i] = RetryIdle]
    /\ UNCHANGED client

SharedNext ==
    \/ \E kind \in ScopedKinds : MakeScoped(kind)
    \/ \E i \in Calls, kind \in ScopedKinds, optlist \in SharedOptlists :
          SharedCall(i, kind, optlist)
    \/ \E i \in Calls : SharedSend(i)
    \/ \E i \in Calls, net \in SharedNets : SharedRespond(i, net)
    \/ \E i \in Calls : SharedReadBody(i)
    \/ \E i \in Calls : \E jitter \in JitterChoices(retry[i].delay) :
          SharedSleep(i, jitter)
    \/ \E i \in Calls : SharedReturn(i)

SharedSpec == SharedInit /\ [][SharedNext]_vars

\* The credential New was given, as the signer is to get it.
ConfiguredCredentials ==
    [AccessKeyID |-> client.auth.accessKey,
     SecretAccessKey |-> client.auth.secretKey,
     Service |-> defaultService,
     Region |-> client.transport.config.Region]

\* The latest attempt of the call of goroutine i has built its request and
\* handed it to the HTTP client.
SharedBuilt(i) ==
    /\ call[i].pc \in {"inflight", "reading", "running", "returned"}
    /\ call[i].sent > 0
    /\ call[i].req.err.type = "nil"
    /\ ~call[i].req.panics

\* C24: once a transport is constructed no operation changes it: through
\* calls with any per-call options, the making of scoped clients and calls
\* that run at once, the client keeps the credential and the options New
\* was given, its transport stays the one New made of them (endpoint,
\* region, timeout, retry count, user agent and authenticator), and the
\* request of every attempt of every call is authenticated by the variant
\* chosen at construction: Authorization: Bearer <key> for the API key, the
\* signer with the configured access key, secret key, service and region
\* for access keys.
C24_TransportImmutable ==
    /\ [][/\ client'.transport = client.transport
          /\ client'.auth = client.auth
          /\ client'.opts = client.opts]_vars
    /\ [](client.transport = New(client.auth, client.opts).transport)
    /\ [](\A i \in Calls :
             SharedBuilt(i) =>
                 CASE client.auth.kind = "authKindAPIKey" ->
                         /\ "Authorization" \in DOMAIN call[i].req.headers
                         /\ call[i].req.headers["Authorization"]
                               = "Bearer " \o client.auth.apiKey
                         /\ call[i].req.signed = NoCredentials
                   [] client.auth.kind = "authKindIAM" ->
                         call[i].req.signed = ConfiguredCredentials
                   [] OTHER -> FALSE)

C24_Witness ==
    /\ client.auth = AuthIAM("ak", "sk")
    /\ client.transport.config.Region = "cn-shanghai"
    /\ client.scoped = ScopedKinds
    /\ call[1].via = "collection"
    /\ call[1].optlist # << >>
    /\ call[1].retries = 1
    /\ call[1].pc = "inflight"
    /\ call[1].sent = 2
    /\ retry[1].calls = 1
    /\ call[1].req.signed.Region = "cn-shanghai"
    /\ call[1].req.signed.AccessKeyID = "ak"
    /\ call[2].via = "rerank"
    /\ call[2].pc = "reading"
    /\ call[2].response = ZeroTarget
    /\ call[2].optlist = <<WithRequestHeaders(("X-A" :> "1") @@ ("X-B" :> "2")),
                           WithRequestHeader("Authorization", "caller")>>
    /\ SharedBuilt(2)
    /\ call[2].req.signed.SecretAccessKey = "sk"
    /\ call[2].req.signed.Service = "vikingdb"

\* The headers of a request built from the transport defaults alone.
DefaultsOnlyHeaders ==
    LET h == ("Accept" :> "application/json")
             @@ ("Content-Type" :> "application/json")
             @@ ("User-Agent" :> client.transport.userAgent)
    IN  IF client.auth.kind = "authKindAPIKey"
        THEN h @@ ("Authorization" :> "Bearer " \o client.auth.apiKey)
        ELSE h

\* C25: per-call options affect only the call they are given to: however
\* the calls on one client follow one another or run at once, every call
\* works with the defaults and its own options on top, and a call made
\* without options works with the defaults alone: the retry count of the
\* transport, and a request with the default headers, no query parameter
\* and no request id, whatever the options of the other calls are.
C25_OptionsNotPersisted ==
    \A i \in Calls :
        call[i].pc # "none" =>
            /\ call[i].opts = ApplyRequestOptions(defaultRequestOptions,
                                                  call[i].optlist)
            /\ call[i].retries = EffectiveRetries(call[i].opts.MaxRetries,
                                                  client.transport.config.MaxRetries)
            /\ call[i].optlist = << >> =>
                  /\ call[i].opts = defaultRequestOptions
                  /\ call[i].retries = client.transport.config.MaxRetries
                  /\ SharedBuilt(i) =>
                        /\ call[i].req.headers = DefaultsOnlyHeaders
                        /\ call[i].req.query = EmptyMap

C25_Witness ==
    /\ call[1].pc = "inflight"
    /\ call[1].optlist = <<WithRequestID("rid"), WithRequestMaxRetries(1),
                           WithRequestQueryParam("q", "1")>>
    /\ SharedBuilt(1)
    /\ call[1].req.headers["X-Tt-Logid"] = "rid"
    /\ call[1].req.query["q"] = "1"
    /\ call[2].pc = "inflight"
    /\ call[2].optlist = << >>
    /\ SharedBuilt(2)
    /\ requestIDHeader \notin DOMAIN call[2].req.headers
    /\ call[2].req.query = EmptyMap
    /\ call[2].retries = 1

====
